---- MODULE Spec2Model ----
(***************************************************************************)
(* Model of the two-node thermal control testbed.                          *)
(*                                                                         *)
(* The repository holds several firmware images that are never linked      *)
(* together; each is one value of the variable node:                       *)
(*   "bridge1"         src/bridge/main/bridge1.c      (plant, ESP-NOW)     *)
(*   "controller1"     src/controller/main/controller1.c (WASM + ESP-NOW)  *)
(*   "controller2"     src/controller/main/controller2.c (native law)      *)
(*   "controller_wamr" src/controller/main/controller_wamr.c (WASM + ADC)  *)
(*                                                                         *)
(* Execution contexts of a node: "task" (the periodic FreeRTOS task or     *)
(* main loop), "recv" (the ESP-NOW receive callback) and "wasm" (the       *)
(* pthread that runs run_wasm and, inside it, the guest's host calls).     *)
(*                                                                         *)
(* A C float is an integer count of 1/ONE (fixed point), or NaN.           *)
(***************************************************************************)
EXTENDS Integers, Sequences, FiniteSets, TLC

VARIABLES
    node,            \* the firmware image this node runs
    current_temp,    \* static float current_temp
    heater_cmd,      \* static float heater_cmd
    mutex,           \* holder of heater_mutex / temp_mutex: "free" or a context
    pc_t,            \* position of the periodic task
    take_t,          \* the task's last xSemaphoreTake result (pdTRUE = TRUE)
    task_local,      \* local_heater_cmd / cmd_to_send / temperature
    packet,          \* the SimPacket built on the task's stack
    result,          \* esp_now_send's return value for this iteration
    sends,           \* esp_now_send calls made in this iteration
    packet_counter,  \* int32_t packet_counter
    ticks,           \* completed loop iterations (elapsed simulation ticks)
    pc_r,            \* position of onReceiveData
    rx,              \* the buffer (data, len) of the last onReceiveData call
    new_cmd,         \* bridge1's onReceiveData local new_cmd
    take_r,          \* onReceiveData's last xSemaphoreTake result
    pc_w,            \* position of the WASM pthread
    take_w,          \* a host call's last xSemaphoreTake result
    h_arg,           \* host_set_heater's (clamped) value / host_get_temperature's temp
    module,          \* wasm_module_t        "null" | "live" | "released" | "bad_free"
    module_inst,     \* wasm_module_inst_t   (same states)
    exec_env,        \* wasm_exec_env_t      (same states)
    func,            \* result of wasm_runtime_lookup_function (found?)
    exception,       \* wasm_runtime_get_exception's string, NoException for NULL
    report,          \* what run_wasm / wasm_thread_entry logged as the outcome
    heater_gpio,     \* level last written by gpio_set_level(PIN_HEATER_OUT, .)
    stop_cause,      \* who made the last failed entry-point call stop: "" | "host" | "program"
    stored_counters, \* history: the counter fields of the last two packets a handler stored
    tx_packet,       \* wire record: the SimPacket object on the sending node
    wire,            \* wire record: the bytes handed to esp_now_send / to the callback
    rx_packet,       \* wire record: the fields read through the receiver's SimPacket *
    law_readings,    \* control law: the readings presented so far
    law_native,      \* control law: heater_cmd of controller2.c after each reading
    law_guest,       \* control law: the guest's actuator level after each reading
    plant,           \* plant run: the image whose integrator runs, "" before app_main
    plant_temp,      \* plant run: static float current_temp of that image
    plant_reading,   \* plant run: simulated_reading of the last tick
    plant_held,      \* plant run: which commands the ticks so far used (HeldAfter)
    plant_ticks,     \* plant run: ticks done, counted up to MaxPlantTicks
    received_heater_power,  \* bridge.c: volatile float received_heater_power
    pos_edge_timestamp,     \* bridge.c: on_capture_event's static pos_edge_timestamp
    guest_pc,        \* guest run: position of containers/controller.c main
    guest_temp,      \* guest run: main's float current_temp
    g_heater_state,  \* guest run: main's int heater_state
    guest_calls,     \* guest run: the host calls made in the current pass of the loop
    set_heater_args, \* guest run: the arguments of the host_set_heater calls so far
    c_heater_cmd,    \* two nodes: controller1.c heater_cmd
    c_held,          \* two nodes: the values controller1.c heater_cmd has held
    c_cmd_to_send,   \* two nodes: sender_task's cmd_to_send
    c_pc,            \* two nodes: position of sender_task
    air,             \* two nodes: the values of the command packets handed to the link
    b_heater_cmd     \* two nodes: bridge1.c heater_cmd

shared == <<current_temp, heater_cmd, mutex>>
task_vars == <<pc_t, take_t, task_local, packet, result, sends, packet_counter, ticks>>
recv_vars == <<pc_r, rx, new_cmd, take_r>>
wasm_vars == <<pc_w, take_w, h_arg, module, module_inst, exec_env,
               func, exception, report, heater_gpio>>
ghost_vars == <<stop_cause, stored_counters>>
wire_vars == <<tx_packet, wire, rx_packet>>
law_vars == <<law_readings, law_native, law_guest>>
capture_vars == <<received_heater_power, pos_edge_timestamp>>
plant_vars == <<plant, plant_temp, plant_reading, plant_held, plant_ticks, capture_vars>>
guest_vars == <<guest_pc, guest_temp, g_heater_state, guest_calls, set_heater_args>>
link_vars == <<c_heater_cmd, c_held, c_cmd_to_send, c_pc, air, b_heater_cmd>>
vars == <<node, shared, task_vars, recv_vars, wasm_vars, ghost_vars, wire_vars, law_vars, plant_vars, guest_vars, link_vars>>

----------------------------------------------------------------------------
(* Bounds of the model *)

\* loop iterations of the periodic task that are explored
MaxTicks == 1
\* device_id bytes delivered to a receive handler: 0..MaxDeviceId
MaxDeviceId == 1
\* delivered buffer lengths: sizeof(SimPacket) - MaxLenDelta .. + MaxLenDelta
MaxLenDelta == 1
\* counter fields of the packets delivered out of order: 0..MaxSeq
MaxSeq == 2
\* readings presented to the control laws in a row
MaxReadings == 4

\* ticks of the plant's integrator that are counted
MaxPlantTicks == 50
\* ticks of bridge.c's integrator explored together with its PWM capture
MaxCaptureTicks == 2

----------------------------------------------------------------------------
(* Floats *)

\* fixed-point scale: the float 1.0f
ONE == 1000
\* a float that is not a number (any NaN bit pattern of the 4 value bytes),
\* kept apart from every number the model computes
NaN == 999999 * ONE

F_0_5 == ONE \div 2
\* heater commands that arrive in packets or from the guest: not a number,
\* below 0, in range, above 1
CmdInputs == {NaN, 0 - F_0_5, F_0_5, ONE + F_0_5}
\* temperature readings that arrive in packets: not a number, below the
\* hysteresis band, above it
TempInputs == {NaN, 48 * ONE, 52 * ONE}

IsNaN(x) == x = NaN
\* C comparisons: every comparison with a NaN operand is false
FLt(a, b) == ~IsNaN(a) /\ ~IsNaN(b) /\ a < b
FLe(a, b) == ~IsNaN(a) /\ ~IsNaN(b) /\ a <= b
FGt(a, b) == FLt(b, a)
FGe(a, b) == FLe(b, a)
\* C arithmetic: NaN propagates; a product of two fixed-point numbers is rescaled
FAdd(a, b) == IF IsNaN(a) \/ IsNaN(b) THEN NaN ELSE a + b
FSub(a, b) == IF IsNaN(a) \/ IsNaN(b) THEN NaN ELSE a - b
FMul(a, b) == IF IsNaN(a) \/ IsNaN(b) THEN NaN ELSE (a * b) \div ONE

----------------------------------------------------------------------------
(* simulation_data_packet.h *)

\* sizeof(SimPacket): packed uint8 + uint8 + float + uint32
SizeofSimPacket == 10

SimPacket(device_id, id, value, counter) ==
    [len |-> SizeofSimPacket, device_id |-> device_id, id |-> id,
     value |-> value, counter |-> counter]

\* bridge1.c: SimPacket sensor_packet = {.device_id = 0, .id = 1, ...}
sensor_packet(value, counter) == SimPacket(0, 1, value, counter)

\* controller1.c, controller2.c: SimPacket packet = {.device_id = 1, .id = 1, ...}
command_packet(value, counter) == SimPacket(1, 1, value, counter)

\* no packet built / no buffer delivered yet
NoPacket == [len |-> 0, device_id |-> 0, id |-> 0, value |-> 0, counter |-> 0]

----------------------------------------------------------------------------
(* Firmware images and their contexts *)

Nodes == {"bridge1", "controller1", "controller2", "controller_wamr"}
\* images with an ESP-NOW receive callback
RecvNodes == {"bridge1", "controller1", "controller2"}
\* images whose periodic task reads heater_cmd and sends it or integrates it
CmdLoopNodes == {"bridge1", "controller1", "controller2"}
\* images with a WASM pthread
WasmNodes == {"controller1", "controller_wamr"}

\* xSemaphoreTake(m, pdMS_TO_TICKS(10)) == pdTRUE
Take(ctx) == mutex = "free" /\ mutex' = ctx
\* xSemaphoreTake(m, pdMS_TO_TICKS(10)) != pdTRUE: another context held the
\* mutex for the whole bounded wait
Busy(ctx) == mutex \notin {"free", ctx}
\* xSemaphoreGive(m)
Give == mutex' = "free"

----------------------------------------------------------------------------
(* bridge1.c: physics constants and law *)

AMBIENT_TEMP == 25 * ONE
HEATING_RATE == (8 * ONE) \div 10
COOLING_RATE == (2 * ONE) \div 100
THERMAL_MASS == (95 * ONE) \div 100
SIMULATION_TICK_MS == 50
NOISE == (3 * ONE) \div 10

\* float current_temp = 25.0f (controllers) / AMBIENT_TEMP (bridge1)
InitTemp(n) == IF n = "bridge1" THEN AMBIENT_TEMP ELSE 25 * ONE

\* the step with the heat loss taken from the temperature itself
PhysicsStep_abs(temp, cmd) ==
    LET energy_in == FMul(cmd, HEATING_RATE)
        energy_out == FMul(temp, COOLING_RATE)
        target_next_temp == FSub(FAdd(temp, energy_in), energy_out)
    IN  FAdd(FMul(temp, THERMAL_MASS), FMul(target_next_temp, ONE - THERMAL_MASS))

\* one integrator step of physics_simulation_task (no clamp in bridge1.c)
PhysicsStep(temp, cmd) ==
    LET energy_in == FMul(cmd, HEATING_RATE)
        energy_out == FMul(FSub(temp, AMBIENT_TEMP), COOLING_RATE)
        target_next_temp == FSub(FAdd(temp, energy_in), energy_out)
    IN  FAdd(FMul(temp, THERMAL_MASS), FMul(target_next_temp, ONE - THERMAL_MASS))

\* random_float(-0.3f, 0.3f)
NoiseValues == {0 - NOISE, 0, NOISE}

\* the command a loop uses when xSemaphoreTake fails: 0.0f
TimeoutCmd_stale(stored) == stored
TimeoutCmd(stored) == 0

----------------------------------------------------------------------------
(* The periodic task *)

ESP_OK == "ESP_OK"
ESP_FAIL == "ESP_FAIL"
SendResults == {ESP_OK, ESP_FAIL}

\* the position after the command was read (or defaulted)
AfterRead(n) == IF n = "bridge1" THEN "physics" ELSE "send"

\* the locals of one iteration go out of scope
EndIteration ==
    /\ ticks < MaxTicks
    /\ ticks' = ticks + 1
    /\ pc_t' = IF node = "controller_wamr" THEN "adc" ELSE "take"
    /\ take_t' = FALSE
    /\ task_local' = 0
    /\ packet' = NoPacket
    /\ result' = ESP_OK
    /\ sends' = 0

\* if (xSemaphoreTake(...) == pdTRUE)   -- taken
loop_take ==
    /\ node \in CmdLoopNodes
    /\ pc_t = "take"
    /\ Take("task")
    /\ take_t' = TRUE
    /\ pc_t' = "cs"
    /\ UNCHANGED <<node, current_temp, heater_cmd, task_local, packet, result,
                   sends, packet_counter, ticks, recv_vars, wasm_vars>>
    /\ UNCHANGED <<stored_counters, stop_cause, wire_vars, law_vars, plant_vars, guest_vars, link_vars>>

\* else { local_heater_cmd = 0.0f; } / { cmd_to_send = 0.0f; }
loop_timeout ==
    /\ node \in CmdLoopNodes
    /\ pc_t = "take"
    /\ Busy("task")
    /\ take_t' = FALSE
    /\ task_local' = TimeoutCmd(heater_cmd)
    /\ pc_t' = AfterRead(node)
    /\ UNCHANGED <<node, shared, packet, result, sends, packet_counter, ticks,
                   recv_vars, wasm_vars>>
    /\ UNCHANGED <<stored_counters, stop_cause, wire_vars, law_vars, plant_vars, guest_vars, link_vars>>

\* { local_heater_cmd = heater_cmd; xSemaphoreGive(m); }
loop_read ==
    /\ node \in CmdLoopNodes
    /\ pc_t = "cs"
    /\ task_local' = heater_cmd
    /\ Give
    /\ pc_t' = AfterRead(node)
    /\ UNCHANGED <<node, current_temp, heater_cmd, take_t, packet, result, sends,
                   packet_counter, ticks, recv_vars, wasm_vars>>
    /\ UNCHANGED <<stored_counters, stop_cause, wire_vars, law_vars, plant_vars, guest_vars, link_vars>>

\* bridge1.c: the physics update and the sensor packet
physics_update ==
    /\ node = "bridge1"
    /\ pc_t = "physics"
    /\ \E noise \in NoiseValues :
         /\ current_temp' = PhysicsStep(current_temp, task_local)
         /\ packet' = sensor_packet(FAdd(current_temp', noise),
                                    ticks * SIMULATION_TICK_MS)
    /\ pc_t' = "send"
    /\ UNCHANGED <<node, heater_cmd, mutex, take_t, task_local, result, sends,
                   packet_counter, ticks, recv_vars, wasm_vars>>
    /\ UNCHANGED <<stored_counters, stop_cause, wire_vars, law_vars, plant_vars, guest_vars, link_vars>>

\* the position after esp_now_send returned r
AfterSend_retry(r) == IF r = ESP_OK THEN "delay" ELSE "send"
AfterSend(r) == "delay"

\* bridge1.c: esp_now_send and the warning on failure
physics_send ==
    /\ node = "bridge1"
    /\ pc_t = "send"
    /\ \E r \in SendResults :
         /\ result' = r
         /\ pc_t' = AfterSend(r)
    /\ sends' = sends + 1
    /\ UNCHANGED <<node, shared, take_t, task_local, packet, packet_counter,
                   ticks, recv_vars, wasm_vars>>
    /\ UNCHANGED <<stored_counters, stop_cause, wire_vars, law_vars, plant_vars, guest_vars, link_vars>>

\* the same step with the counter advanced only when esp_now_send succeeded
sender_send_count_ok ==
    /\ node \in {"controller1", "controller2"}
    /\ pc_t = "send"
    /\ packet' = command_packet(task_local, packet_counter)
    /\ \E r \in SendResults :
         /\ result' = r
         /\ pc_t' = AfterSend(r)
         /\ packet_counter' = IF r = ESP_OK THEN packet_counter + 1 ELSE packet_counter
    /\ sends' = sends + 1
    /\ UNCHANGED <<node, shared, take_t, task_local, ticks, recv_vars, wasm_vars>>
    /\ UNCHANGED <<stored_counters, stop_cause, wire_vars, law_vars, plant_vars, guest_vars, link_vars>>

\* controller1.c sender_task / controller2.c app_main: build the command
\* packet and hand it to esp_now_send, whose result is discarded
sender_send ==
    /\ node \in {"controller1", "controller2"}
    /\ pc_t = "send"
    /\ packet' = command_packet(task_local, packet_counter)
    /\ packet_counter' = packet_counter + 1
    /\ \E r \in SendResults :
         /\ result' = r
         /\ pc_t' = AfterSend(r)
    /\ sends' = sends + 1
    /\ UNCHANGED <<node, shared, take_t, task_local, ticks, recv_vars, wasm_vars>>
    /\ UNCHANGED <<stored_counters, stop_cause, wire_vars, law_vars, plant_vars, guest_vars, link_vars>>

\* vTaskDelay(period), then the next iteration
loop_delay ==
    /\ node \in CmdLoopNodes
    /\ pc_t = "delay"
    /\ EndIteration
    /\ UNCHANGED <<node, shared, packet_counter, recv_vars, wasm_vars>>
    /\ UNCHANGED <<stored_counters, stop_cause, wire_vars, law_vars, plant_vars, guest_vars, link_vars>>

----------------------------------------------------------------------------
(* onReceiveData *)

\* if (len == sizeof(SimPacket))
LenOk_any(b) == TRUE
LenOk(b) == b.len = SizeofSimPacket

\* bridge1.c: if (packet->device_id == 1 && packet->id == 1)
bridge_accepts_anyrole(p) == p.id = 1
bridge_accepts(p) == p.device_id = 1 /\ p.id = 1

\* controller1.c, controller2.c: if (p->device_id == 0 && p->id == 1)
controller_accepts_fresh(p) ==
    p.device_id = 0 /\ p.id = 1 /\ p.counter > stored_counters[2]
controller_accepts(p) == p.device_id = 0 /\ p.id = 1

Accepts(n, p) == IF n = "bridge1" THEN bridge_accepts(p) ELSE controller_accepts(p)

\* The floats the value bytes of a delivered buffer hold: commands on the
\* plant, readings on a controller
RxValues(n) == IF n = "bridge1" THEN CmdInputs ELSE TempInputs
\* The counter fields of delivered buffers: no handler reads the field
RxCounters == {0}

\* The buffers the link may hand to onReceiveData of image n: every packet of
\* the right length, and buffers of another length whose leading bytes are
\* those of a packet the image would accept (the handler reads nothing else).
BuffersOf(n) ==
    LET Packets == { SimPacket(d, i, v, c) : d \in 0..MaxDeviceId, i \in 0..1,
                                             v \in RxValues(n), c \in RxCounters }
        Lengths == ((SizeofSimPacket - MaxLenDelta)..(SizeofSimPacket + MaxLenDelta))
                   \ {SizeofSimPacket}
    IN  Packets \cup { [p EXCEPT !.len = l] :
                         p \in { q \in Packets : Accepts(n, q) }, l \in Lengths }

\* the same sets, tabulated once
BufferTable == [n \in {"bridge1", "controller1", "controller2"} |-> BuffersOf(n)]
Buffers(n) == BufferTable[n]

\* bridge1.c: if (new_cmd <= 0.0f) new_cmd = 0.0f; if (new_cmd >= 1.0f) new_cmd = 1.0f;
bridge_clamp(v) ==
    LET lo == IF FLe(v, 0) THEN 0 ELSE v
    IN  IF FGe(lo, ONE) THEN ONE ELSE lo

\* controller2.c: target_temp and hysteresis (used, never declared in the file)
target_temp == 50 * ONE
hysteresis == ONE

\* controller2.c: the bang-bang law inside the critical section
bang_bang(temp, cmd) ==
    IF FLt(temp, target_temp - hysteresis) THEN ONE
    ELSE IF FGt(temp, target_temp + hysteresis) THEN 0
    ELSE cmd

\* the callback is entered with (data, len), a buffer of bufs; up to the
\* xSemaphoreTake
Deliver(bufs) ==
    /\ node \in RecvNodes
    /\ pc_r = "idle"
    /\ \E b \in bufs :
         /\ rx' = b
         /\ IF LenOk(b) /\ Accepts(node, b)
            THEN /\ pc_r' = "take"
                 /\ new_cmd' = IF node = "bridge1" THEN bridge_clamp(b.value) ELSE 0
            ELSE /\ pc_r' = "idle"
                 /\ new_cmd' = 0
    /\ take_r' = FALSE
    /\ UNCHANGED <<node, shared, task_vars, wasm_vars>>
    /\ UNCHANGED <<stored_counters, stop_cause, wire_vars, law_vars, plant_vars, guest_vars, link_vars>>

\* onReceiveData called by the ESP-NOW stack with any buffer of Buffers
onReceiveData == Deliver(Buffers(node))

\* Right-length packets whose counter field is any of 0..MaxSeq: lower than,
\* equal to or higher than the counter of an earlier packet
SeqBuffersOf(n) ==
    { SimPacket(d, i, v, c) : d \in 0..MaxDeviceId, i \in 0..1,
                              v \in RxValues(n), c \in 0..MaxSeq }
SeqBufferTable == [n \in {"bridge1", "controller1", "controller2"} |-> SeqBuffersOf(n)]

\* onReceiveData called with packets in any order of their counters
onReceiveData_seq == Deliver(SeqBufferTable[node])

\* if (xSemaphoreTake(...) == pdTRUE)   -- taken
recv_take ==
    /\ node \in RecvNodes
    /\ pc_r = "take"
    /\ Take("recv")
    /\ take_r' = TRUE
    /\ pc_r' = "cs"
    /\ UNCHANGED <<node, current_temp, heater_cmd, rx, new_cmd, task_vars, wasm_vars>>
    /\ UNCHANGED <<stored_counters, stop_cause, wire_vars, law_vars, plant_vars, guest_vars, link_vars>>

\* the position after the guarded block
AfterStore(n) == IF n = "controller2" THEN "log" ELSE "idle"

\* xSemaphoreTake failed: the block is skipped
recv_timeout ==
    /\ node \in RecvNodes
    /\ pc_r = "take"
    /\ Busy("recv")
    /\ take_r' = FALSE
    /\ pc_r' = AfterStore(node)
    /\ UNCHANGED <<node, shared, rx, new_cmd, task_vars, wasm_vars>>
    /\ UNCHANGED <<stored_counters, stop_cause, wire_vars, law_vars, plant_vars, guest_vars, link_vars>>

\* the guarded block
recv_store ==
    /\ node \in RecvNodes
    /\ pc_r = "cs"
    /\ IF node = "bridge1"
       THEN /\ heater_cmd' = new_cmd
            /\ UNCHANGED current_temp
       ELSE /\ current_temp' = rx.value
            /\ heater_cmd' = IF node = "controller2"
                             THEN bang_bang(rx.value, heater_cmd)
                             ELSE heater_cmd
    /\ Give
    /\ pc_r' = AfterStore(node)
    /\ stored_counters' = <<stored_counters[2], rx.counter>>
    /\ UNCHANGED <<node, rx, new_cmd, take_r, task_vars, wasm_vars>>
    /\ UNCHANGED <<stop_cause, wire_vars, law_vars, plant_vars, guest_vars, link_vars>>

\* controller2.c: ESP_LOGI(..., heater_cmd > 0.5f ? "ON" : "OFF") after the block
recv_log ==
    /\ node = "controller2"
    /\ pc_r = "log"
    /\ pc_r' = "idle"
    /\ UNCHANGED <<node, shared, rx, new_cmd, take_r, task_vars, wasm_vars>>
    /\ UNCHANGED <<stored_counters, stop_cause, wire_vars, law_vars, plant_vars, guest_vars, link_vars>>

----------------------------------------------------------------------------
(* controller_wamr.c: reader_task *)

\* temperature = voltage_mv / 3300 * 100, a number between 0 and 100
AdcTemps == { t \in TempInputs : FGe(t, 0) /\ FLe(t, 100 * ONE) }

\* adc_oneshot_read, adc_cali_raw_to_voltage, the conversion
reader_adc ==
    /\ node = "controller_wamr"
    /\ pc_t = "adc"
    /\ \E temperature \in AdcTemps : task_local' = temperature
    /\ pc_t' = "take"
    /\ UNCHANGED <<node, shared, take_t, packet, result, sends, packet_counter,
                   ticks, recv_vars, wasm_vars>>
    /\ UNCHANGED <<stored_counters, stop_cause, wire_vars, law_vars, plant_vars, guest_vars, link_vars>>

\* if (xSemaphoreTake(temp_mutex, ...) == pdTRUE)   -- taken
reader_take ==
    /\ node = "controller_wamr"
    /\ pc_t = "take"
    /\ Take("task")
    /\ take_t' = TRUE
    /\ pc_t' = "cs"
    /\ UNCHANGED <<node, current_temp, heater_cmd, task_local, packet, result,
                   sends, packet_counter, ticks, recv_vars, wasm_vars>>
    /\ UNCHANGED <<stored_counters, stop_cause, wire_vars, law_vars, plant_vars, guest_vars, link_vars>>

\* xSemaphoreTake failed: the reading is dropped
reader_timeout ==
    /\ node = "controller_wamr"
    /\ pc_t = "take"
    /\ Busy("task")
    /\ take_t' = FALSE
    /\ pc_t' = "log"
    /\ UNCHANGED <<node, shared, task_local, packet, result, sends,
                   packet_counter, ticks, recv_vars, wasm_vars>>
    /\ UNCHANGED <<stored_counters, stop_cause, wire_vars, law_vars, plant_vars, guest_vars, link_vars>>

\* { current_temp = temperature; xSemaphoreGive(temp_mutex); }
reader_store ==
    /\ node = "controller_wamr"
    /\ pc_t = "cs"
    /\ current_temp' = task_local
    /\ Give
    /\ pc_t' = "log"
    /\ UNCHANGED <<node, heater_cmd, take_t, task_local, packet, result, sends,
                   packet_counter, ticks, recv_vars, wasm_vars>>
    /\ UNCHANGED <<stored_counters, stop_cause, wire_vars, law_vars, plant_vars, guest_vars, link_vars>>

\* ESP_LOGI(..., temperature, heater_cmd) after the block
reader_log ==
    /\ node = "controller_wamr"
    /\ pc_t = "log"
    /\ pc_t' = "delay"
    /\ UNCHANGED <<node, shared, take_t, task_local, packet, result, sends,
                   packet_counter, ticks, recv_vars, wasm_vars>>
    /\ UNCHANGED <<stored_counters, stop_cause, wire_vars, law_vars, plant_vars, guest_vars, link_vars>>

\* vTaskDelay(pdMS_TO_TICKS(500)), then the next iteration
reader_delay ==
    /\ node = "controller_wamr"
    /\ pc_t = "delay"
    /\ EndIteration
    /\ UNCHANGED <<node, shared, packet_counter, recv_vars, wasm_vars>>
    /\ UNCHANGED <<stored_counters, stop_cause, wire_vars, law_vars, plant_vars, guest_vars, link_vars>>

----------------------------------------------------------------------------
(* The WAMR runtime's handles *)

\* wasm_runtime_destroy_exec_env / _deinstantiate / _unload on a handle: a
\* live handle is released; any other handle (NULL, already released) is a
\* bad free
Release(h) == IF h = "live" THEN "released" ELSE "bad_free"

\* The text wasm_runtime_get_exception returns after the host stopped the
\* instance (wasm_runtime_terminate), and texts it returns after the program
\* faulted. A text is the sequence of its words; NoException is a NULL
\* result. run_wasm receives the text as a char * and puts no condition on
\* it, so the fault texts range over texts with and without the word the code
\* searches for
NoException == <<>>
HostStopMessage == <<"Exception:", "terminated", "by", "user">>
ProgramFaultMessages == {NoException, <<"Exception:", "unreachable">>,
                         <<"Exception:", "guest", "terminated", "abnormally">>}
Exceptions == {HostStopMessage} \cup ProgramFaultMessages

\* strstr(exception, "terminated")
HasTerminated(e) == \E k \in 1..Len(e) : e[k] = "terminated"

----------------------------------------------------------------------------
(* wasm_thread_entry and run_wasm *)

\* esp_vfs_spiffs_register or wasm_runtime_full_init failed: return NULL
wasm_thread_entry_fail ==
    /\ node \in WasmNodes
    /\ pc_w = "start"
    /\ \E why \in {"SPIFFS Mount Failed", "WAMR Init Failed"} : report' = why
    /\ pc_w' = "returned"
    /\ UNCHANGED <<node, shared, task_vars, recv_vars, take_w, h_arg, module,
                   module_inst, exec_env, func, exception, heater_gpio>>
    /\ UNCHANGED <<stored_counters, stop_cause, wire_vars, law_vars, plant_vars, guest_vars, link_vars>>

\* the natives are registered and run_wasm(wasm_file, file_size) is called;
\* controller_wamr.c calls it with a NULL buffer too when the file is missing
wasm_thread_entry ==
    /\ node \in WasmNodes
    /\ pc_w = "start"
    /\ \E file_ok \in BOOLEAN :
         /\ (~file_ok) => node = "controller_wamr"
         /\ pc_w' = IF file_ok THEN "load" ELSE "load_null"
    /\ UNCHANGED <<node, shared, task_vars, recv_vars, take_w, h_arg, module,
                   module_inst, exec_env, func, exception, report, heater_gpio>>
    /\ UNCHANGED <<stored_counters, stop_cause, wire_vars, law_vars, plant_vars, guest_vars, link_vars>>

\* module = wasm_runtime_load(...): loaded
run_wasm_load ==
    /\ pc_w = "load"
    /\ module' = "live"
    /\ pc_w' = "instantiate"
    /\ UNCHANGED <<node, shared, task_vars, recv_vars, take_w, h_arg,
                   module_inst, exec_env, func, exception, report, heater_gpio>>
    /\ UNCHANGED <<stored_counters, stop_cause, wire_vars, law_vars, plant_vars, guest_vars, link_vars>>

\* the same path without its return: run_wasm goes on to instantiate
run_wasm_load_fail_noreturn ==
    /\ pc_w \in {"load", "load_null"}
    /\ report' = "WASM load failed"
    /\ pc_w' = "instantiate"
    /\ UNCHANGED <<node, shared, task_vars, recv_vars, take_w, h_arg, module,
                   module_inst, exec_env, func, exception, heater_gpio>>
    /\ UNCHANGED <<stored_counters, stop_cause, wire_vars, law_vars, plant_vars, guest_vars, link_vars>>

\* if (!module) { ESP_LOGE("WASM load failed"); return; }
run_wasm_load_fail ==
    /\ pc_w \in {"load", "load_null"}
    /\ report' = "WASM load failed"
    /\ pc_w' = "returned"
    /\ UNCHANGED <<node, shared, task_vars, recv_vars, take_w, h_arg, module,
                   module_inst, exec_env, func, exception, heater_gpio>>
    /\ UNCHANGED <<stored_counters, stop_cause, wire_vars, law_vars, plant_vars, guest_vars, link_vars>>

\* module_inst = wasm_runtime_instantiate(...): instantiated
run_wasm_instantiate ==
    /\ pc_w = "instantiate"
    /\ module_inst' = "live"
    /\ pc_w' = "create_exec_env"
    /\ UNCHANGED <<node, shared, task_vars, recv_vars, take_w, h_arg, module,
                   exec_env, func, exception, report, heater_gpio>>
    /\ UNCHANGED <<stored_counters, stop_cause, wire_vars, law_vars, plant_vars, guest_vars, link_vars>>

\* the cleanup of the instantiation-failure path
instantiate_fail_cleanup_leak(m) == m
instantiate_fail_cleanup(m) == Release(m)

\* if (!module_inst) { ESP_LOGE(...); wasm_runtime_unload(module); return; }
run_wasm_instantiate_fail ==
    /\ pc_w = "instantiate"
    /\ report' = "WASM instantiation failed"
    /\ module' = instantiate_fail_cleanup(module)
    /\ pc_w' = "returned"
    /\ UNCHANGED <<node, shared, task_vars, recv_vars, take_w, h_arg,
                   module_inst, exec_env, func, exception, heater_gpio>>
    /\ UNCHANGED <<stored_counters, stop_cause, wire_vars, law_vars, plant_vars, guest_vars, link_vars>>

\* exec_env = wasm_runtime_create_exec_env(...): created
run_wasm_create_exec_env ==
    /\ pc_w = "create_exec_env"
    /\ exec_env' = "live"
    /\ pc_w' = "lookup"
    /\ UNCHANGED <<node, shared, task_vars, recv_vars, take_w, h_arg, module,
                   module_inst, func, exception, report, heater_gpio>>
    /\ UNCHANGED <<stored_counters, stop_cause, wire_vars, law_vars, plant_vars, guest_vars, link_vars>>

\* the same path without its return: run_wasm goes on to the lookup
run_wasm_create_exec_env_fail_noreturn ==
    /\ pc_w = "create_exec_env"
    /\ report' = "Exec env creation failed"
    /\ module_inst' = Release(module_inst)
    /\ module' = Release(module)
    /\ pc_w' = "lookup"
    /\ UNCHANGED <<node, shared, task_vars, recv_vars, take_w, h_arg, exec_env,
                   func, exception, heater_gpio>>
    /\ UNCHANGED <<stored_counters, stop_cause, wire_vars, law_vars, plant_vars, guest_vars, link_vars>>

\* if (!exec_env) { ESP_LOGE(...); wasm_runtime_deinstantiate(module_inst);
\*                  wasm_runtime_unload(module); return; }
run_wasm_create_exec_env_fail ==
    /\ pc_w = "create_exec_env"
    /\ report' = "Exec env creation failed"
    /\ module_inst' = Release(module_inst)
    /\ module' = Release(module)
    /\ pc_w' = "returned"
    /\ UNCHANGED <<node, shared, task_vars, recv_vars, take_w, h_arg, exec_env,
                   func, exception, heater_gpio>>
    /\ UNCHANGED <<stored_counters, stop_cause, wire_vars, law_vars, plant_vars, guest_vars, link_vars>>

\* func = wasm_runtime_lookup_function(module_inst, "main")
run_wasm_lookup ==
    /\ pc_w = "lookup"
    /\ \E found \in BOOLEAN :
         /\ func' = found
         /\ pc_w' = IF found THEN "call" ELSE "cleanup_1"
         /\ report' = IF found THEN report ELSE "No main function found"
    /\ UNCHANGED <<node, shared, task_vars, recv_vars, take_w, h_arg, module,
                   module_inst, exec_env, exception, heater_gpio>>
    /\ UNCHANGED <<stored_counters, stop_cause, wire_vars, law_vars, plant_vars, guest_vars, link_vars>>

\* wasm_runtime_call_wasm(exec_env, func, 2, args): the guest starts to run
run_wasm_call ==
    /\ pc_w = "call"
    /\ pc_w' = "guest"
    /\ UNCHANGED <<node, shared, task_vars, recv_vars, take_w, h_arg, module,
                   module_inst, exec_env, func, exception, report, heater_gpio>>
    /\ UNCHANGED <<stored_counters, stop_cause, wire_vars, law_vars, plant_vars, guest_vars, link_vars>>

\* the guest's main returns: wasm_runtime_call_wasm returns true
guest_return ==
    /\ pc_w = "guest"
    /\ report' = "WASM execution completed successfully"
    /\ pc_w' = "cleanup_1"
    /\ UNCHANGED <<node, shared, task_vars, recv_vars, take_w, h_arg, module,
                   module_inst, exec_env, func, exception, heater_gpio>>
    /\ UNCHANGED <<stored_counters, stop_cause, wire_vars, law_vars, plant_vars, guest_vars, link_vars>>

\* the guest faults or the host stops it: wasm_runtime_call_wasm returns false
guest_trap ==
    /\ pc_w = "guest"
    /\ \E cause \in {"host", "program"} :
         /\ stop_cause' = cause
         /\ \E e \in Exceptions :
              /\ (cause = "host") <=> (e = HostStopMessage)
              /\ exception' = e
    /\ pc_w' = "get_exception"
    /\ UNCHANGED <<node, shared, task_vars, recv_vars, take_w, h_arg, module,
                   module_inst, exec_env, func, report, heater_gpio>>
    /\ UNCHANGED <<stored_counters, wire_vars, law_vars, plant_vars, guest_vars, link_vars>>

\* exception = wasm_runtime_get_exception(module_inst); the two reports
run_wasm_get_exception ==
    /\ pc_w = "get_exception"
    /\ report' = IF exception # NoException /\ HasTerminated(exception)
                 THEN "WASM execution terminated"
                 ELSE "WASM exception"
    /\ pc_w' = "cleanup_1"
    /\ UNCHANGED <<node, shared, task_vars, recv_vars, take_w, h_arg, module,
                   module_inst, exec_env, func, exception, heater_gpio>>
    /\ UNCHANGED <<stored_counters, stop_cause, wire_vars, law_vars, plant_vars, guest_vars, link_vars>>

\* // Cleanup: the handles in the order the three calls release them
CleanupOrder_swapped == <<"exec_env", "module", "module_inst">>
CleanupOrder == <<"exec_env", "module_inst", "module">>

CleanupPcs == <<"cleanup_1", "cleanup_2", "cleanup_3", "returned">>
CleanupIndex(p) == CHOOSE k \in 1..3 : CleanupPcs[k] = p

\* a teardown whose last call also puts the heater command back to 0.0
run_wasm_cleanup_reset ==
    /\ pc_w \in {"cleanup_1", "cleanup_2", "cleanup_3"}
    /\ LET k == CleanupIndex(pc_w)
           h == CleanupOrder[k]
       IN  /\ exec_env' = IF h = "exec_env" THEN Release(exec_env) ELSE exec_env
           /\ module_inst' = IF h = "module_inst" THEN Release(module_inst)
                             ELSE module_inst
           /\ module' = IF h = "module" THEN Release(module) ELSE module
           /\ heater_cmd' = IF k = 3 THEN 0 ELSE heater_cmd
           /\ pc_w' = CleanupPcs[k + 1]
    /\ UNCHANGED <<node, current_temp, mutex, task_vars, recv_vars, take_w, h_arg,
                   func, exception, report, heater_gpio>>
    /\ UNCHANGED <<stored_counters, stop_cause, wire_vars, law_vars, plant_vars, guest_vars, link_vars>>

\* wasm_runtime_destroy_exec_env(exec_env); wasm_runtime_deinstantiate(module_inst);
\* wasm_runtime_unload(module);  -- one call per step; run_wasm returns after the third
run_wasm_cleanup ==
    /\ pc_w \in {"cleanup_1", "cleanup_2", "cleanup_3"}
    /\ LET k == CleanupIndex(pc_w)
           h == CleanupOrder[k]
       IN  /\ exec_env' = IF h = "exec_env" THEN Release(exec_env) ELSE exec_env
           /\ module_inst' = IF h = "module_inst" THEN Release(module_inst)
                             ELSE module_inst
           /\ module' = IF h = "module" THEN Release(module) ELSE module
           /\ pc_w' = CleanupPcs[k + 1]
    /\ UNCHANGED <<node, shared, task_vars, recv_vars, take_w, h_arg, func,
                   exception, report, heater_gpio>>
    /\ UNCHANGED <<stored_counters, stop_cause, wire_vars, law_vars, plant_vars, guest_vars, link_vars>>

----------------------------------------------------------------------------
(* Host calls of the guest (native_symbols) *)

\* float temp = 25.0f;  -- the value returned when the mutex is not taken
host_get_temperature_default == 25 * ONE

\* host_get_temperature is entered
host_get_temperature ==
    /\ pc_w = "guest"
    /\ h_arg' = host_get_temperature_default
    /\ take_w' = FALSE
    /\ pc_w' = "hg_take"
    /\ UNCHANGED <<node, shared, task_vars, recv_vars, module, module_inst,
                   exec_env, func, exception, report, heater_gpio>>
    /\ UNCHANGED <<stored_counters, stop_cause, wire_vars, law_vars, plant_vars, guest_vars, link_vars>>

\* if (xSemaphoreTake(temp_mutex, ...) == pdTRUE)   -- taken
host_get_temperature_take ==
    /\ pc_w = "hg_take"
    /\ Take("wasm")
    /\ take_w' = TRUE
    /\ pc_w' = "hg_cs"
    /\ UNCHANGED <<node, current_temp, heater_cmd, task_vars, recv_vars, h_arg,
                   module, module_inst, exec_env, func, exception, report,
                   heater_gpio>>
    /\ UNCHANGED <<stored_counters, stop_cause, wire_vars, law_vars, plant_vars, guest_vars, link_vars>>

\* xSemaphoreTake failed: temp keeps its initial value
host_get_temperature_timeout ==
    /\ pc_w = "hg_take"
    /\ Busy("wasm")
    /\ take_w' = FALSE
    /\ pc_w' = "hg_return"
    /\ UNCHANGED <<node, shared, task_vars, recv_vars, h_arg, module,
                   module_inst, exec_env, func, exception, report, heater_gpio>>
    /\ UNCHANGED <<stored_counters, stop_cause, wire_vars, law_vars, plant_vars, guest_vars, link_vars>>

\* the guarded read without its xSemaphoreGive
host_get_temperature_read_nogive ==
    /\ pc_w = "hg_cs"
    /\ h_arg' = current_temp
    /\ pc_w' = "hg_return"
    /\ UNCHANGED <<node, current_temp, heater_cmd, mutex, task_vars, recv_vars,
                   take_w, module, module_inst, exec_env, func, exception, report,
                   heater_gpio>>
    /\ UNCHANGED <<stored_counters, stop_cause, wire_vars, law_vars, plant_vars, guest_vars, link_vars>>

\* { temp = current_temp; xSemaphoreGive(temp_mutex); }
host_get_temperature_read ==
    /\ pc_w = "hg_cs"
    /\ h_arg' = current_temp
    /\ Give
    /\ pc_w' = "hg_return"
    /\ UNCHANGED <<node, current_temp, heater_cmd, task_vars, recv_vars, take_w,
                   module, module_inst, exec_env, func, exception, report,
                   heater_gpio>>
    /\ UNCHANGED <<stored_counters, stop_cause, wire_vars, law_vars, plant_vars, guest_vars, link_vars>>

\* return temp;  -- back in the guest
host_get_temperature_return ==
    /\ pc_w = "hg_return"
    /\ h_arg' = 0
    /\ take_w' = FALSE
    /\ pc_w' = "guest"
    /\ UNCHANGED <<node, shared, task_vars, recv_vars, module, module_inst,
                   exec_env, func, exception, report, heater_gpio>>
    /\ UNCHANGED <<stored_counters, stop_cause, wire_vars, law_vars, plant_vars, guest_vars, link_vars>>

\* controller1.c: if (value < 0.0f) value = 0.0f; if (value > 1.0f) value = 1.0f;
host_clamp(v) ==
    LET lo == IF FLt(v, 0) THEN 0 ELSE v
    IN  IF FGt(lo, ONE) THEN ONE ELSE lo

\* controller1.c: host_set_heater(exec_env, float value) is entered and clamps
host_set_heater ==
    /\ node = "controller1"
    /\ pc_w = "guest"
    /\ \E value \in CmdInputs : h_arg' = host_clamp(value)
    /\ take_w' = FALSE
    /\ pc_w' = "hs_take"
    /\ UNCHANGED <<node, shared, task_vars, recv_vars, module, module_inst,
                   exec_env, func, exception, report, heater_gpio>>
    /\ UNCHANGED <<stored_counters, stop_cause, wire_vars, law_vars, plant_vars, guest_vars, link_vars>>

\* if (xSemaphoreTake(temp_mutex, ...) == pdTRUE)   -- taken
host_set_heater_take ==
    /\ pc_w = "hs_take"
    /\ Take("wasm")
    /\ take_w' = TRUE
    /\ pc_w' = "hs_cs"
    /\ UNCHANGED <<node, current_temp, heater_cmd, task_vars, recv_vars, h_arg,
                   module, module_inst, exec_env, func, exception, report,
                   heater_gpio>>
    /\ UNCHANGED <<stored_counters, stop_cause, wire_vars, law_vars, plant_vars, guest_vars, link_vars>>

\* a failed xSemaphoreTake after which the store is made all the same
host_set_heater_timeout_store ==
    /\ pc_w = "hs_take"
    /\ Busy("wasm")
    /\ take_w' = FALSE
    /\ heater_cmd' = h_arg
    /\ pc_w' = "hs_log"
    /\ UNCHANGED <<node, current_temp, mutex, task_vars, recv_vars, h_arg, module,
                   module_inst, exec_env, func, exception, report, heater_gpio>>
    /\ UNCHANGED <<stored_counters, stop_cause, wire_vars, law_vars, plant_vars, guest_vars, link_vars>>

\* xSemaphoreTake failed: the store is skipped
host_set_heater_timeout ==
    /\ pc_w = "hs_take"
    /\ Busy("wasm")
    /\ take_w' = FALSE
    /\ pc_w' = "hs_log"
    /\ UNCHANGED <<node, shared, task_vars, recv_vars, h_arg, module,
                   module_inst, exec_env, func, exception, report, heater_gpio>>
    /\ UNCHANGED <<stored_counters, stop_cause, wire_vars, law_vars, plant_vars, guest_vars, link_vars>>

\* the guarded store without its xSemaphoreGive
host_set_heater_store_nogive ==
    /\ pc_w = "hs_cs"
    /\ heater_cmd' = h_arg
    /\ pc_w' = "hs_log"
    /\ UNCHANGED <<node, current_temp, mutex, task_vars, recv_vars, take_w, h_arg,
                   module, module_inst, exec_env, func, exception, report,
                   heater_gpio>>
    /\ UNCHANGED <<stored_counters, stop_cause, wire_vars, law_vars, plant_vars, guest_vars, link_vars>>

\* { heater_cmd = value; xSemaphoreGive(temp_mutex); }
host_set_heater_store ==
    /\ pc_w = "hs_cs"
    /\ heater_cmd' = h_arg
    /\ Give
    /\ pc_w' = "hs_log"
    /\ UNCHANGED <<node, current_temp, task_vars, recv_vars, take_w, h_arg,
                   module, module_inst, exec_env, func, exception, report,
                   heater_gpio>>
    /\ UNCHANGED <<stored_counters, stop_cause, wire_vars, law_vars, plant_vars, guest_vars, link_vars>>

\* ESP_LOGI("WASM set heater to ...") and return to the guest
host_set_heater_log ==
    /\ pc_w = "hs_log"
    /\ h_arg' = 0
    /\ take_w' = FALSE
    /\ pc_w' = "guest"
    /\ UNCHANGED <<node, shared, task_vars, recv_vars, module, module_inst,
                   exec_env, func, exception, report, heater_gpio>>
    /\ UNCHANGED <<stored_counters, stop_cause, wire_vars, law_vars, plant_vars, guest_vars, link_vars>>

\* controller_wamr.c: host_set_heater(exec_env, int value)
\*   { gpio_set_level(PIN_HEATER_OUT, value); }
host_set_heater_gpio ==
    /\ node = "controller_wamr"
    /\ pc_w = "guest"
    /\ \E value \in 0..1 : heater_gpio' = value
    /\ UNCHANGED <<node, shared, task_vars, recv_vars, pc_w, take_w, h_arg,
                   module, module_inst, exec_env, func, exception, report>>
    /\ UNCHANGED <<stored_counters, stop_cause, wire_vars, law_vars, plant_vars, guest_vars, link_vars>>

\* a host_delay that sleeps inside the guarded section
host_delay_locked ==
    /\ pc_w = "guest"
    /\ mutex = "free"
    /\ mutex' = "wasm"
    /\ pc_w' = "hd_sleep"
    /\ UNCHANGED <<node, current_temp, heater_cmd, task_vars, recv_vars, take_w,
                   h_arg, module, module_inst, exec_env, func, exception, report,
                   heater_gpio>>
    /\ UNCHANGED <<stored_counters, stop_cause, wire_vars, law_vars, plant_vars, guest_vars, link_vars>>

\* host_delay(exec_env, ms): vTaskDelay(pdMS_TO_TICKS(ms)) is entered
host_delay ==
    /\ pc_w = "guest"
    /\ pc_w' = "hd_sleep"
    /\ UNCHANGED <<node, shared, task_vars, recv_vars, take_w, h_arg, module,
                   module_inst, exec_env, func, exception, report, heater_gpio>>
    /\ UNCHANGED <<stored_counters, stop_cause, wire_vars, law_vars, plant_vars, guest_vars, link_vars>>

\* the delay has elapsed: back in the guest
host_delay_return ==
    /\ pc_w = "hd_sleep"
    /\ pc_w' = "guest"
    /\ UNCHANGED <<node, shared, task_vars, recv_vars, take_w, h_arg, module,
                   module_inst, exec_env, func, exception, report, heater_gpio>>
    /\ UNCHANGED <<stored_counters, stop_cause, wire_vars, law_vars, plant_vars, guest_vars, link_vars>>

\* host_log(exec_env, message): if (message) ESP_LOGI(...)
host_log ==
    /\ pc_w = "guest"
    /\ UNCHANGED vars

----------------------------------------------------------------------------
(* Initial state and next-state relation *)

Init ==
    /\ node \in Nodes
    /\ current_temp = InitTemp(node)
    /\ heater_cmd = 0
    /\ mutex = "free"
    /\ pc_t = IF node = "controller_wamr" THEN "adc" ELSE "take"
    /\ take_t = FALSE
    /\ task_local = 0
    /\ packet = NoPacket
    /\ result = ESP_OK
    /\ sends = 0
    /\ packet_counter = 0
    /\ ticks = 0
    /\ pc_r = "idle"
    /\ rx = NoPacket
    /\ new_cmd = 0
    /\ take_r = FALSE
    /\ pc_w = IF node \in WasmNodes THEN "start" ELSE "none"
    /\ take_w = FALSE
    /\ h_arg = 0
    /\ module = "null"
    /\ module_inst = "null"
    /\ exec_env = "null"
    /\ func = FALSE
    /\ exception = NoException
    /\ report = ""
    /\ heater_gpio = 0
    /\ stop_cause = ""
    /\ stored_counters = <<0, 0>>
    /\ tx_packet = NoPacket
    /\ wire = <<>>
    /\ rx_packet = NoPacket
    /\ law_readings = <<>>
    /\ law_native = <<>>
    /\ law_guest = <<>>
    /\ plant = ""
    /\ plant_temp = 0
    /\ plant_reading = 0
    /\ plant_held = "none"
    /\ plant_ticks = 0
    /\ received_heater_power = 0
    /\ pos_edge_timestamp = 0
    /\ guest_pc = "start"
    /\ guest_temp = 0
    /\ g_heater_state = 0
    /\ guest_calls = <<>>
    /\ set_heater_args = <<>>
    /\ c_heater_cmd = 0
    /\ c_held = {0}
    /\ c_cmd_to_send = 0
    /\ c_pc = "take"
    /\ air = {}
    /\ b_heater_cmd = 0

Next ==
    \/ loop_take
    \/ loop_timeout
    \/ loop_read
    \/ physics_update
    \/ physics_send
    \/ sender_send
    \/ loop_delay
    \/ onReceiveData
    \/ recv_take
    \/ recv_timeout
    \/ recv_store
    \/ recv_log
    \/ reader_adc
    \/ reader_take
    \/ reader_timeout
    \/ reader_store
    \/ reader_log
    \/ reader_delay
    \/ wasm_thread_entry_fail
    \/ wasm_thread_entry
    \/ run_wasm_load
    \/ run_wasm_load_fail
    \/ run_wasm_instantiate
    \/ run_wasm_instantiate_fail
    \/ run_wasm_create_exec_env
    \/ run_wasm_create_exec_env_fail
    \/ run_wasm_lookup
    \/ run_wasm_call
    \/ guest_return
    \/ guest_trap
    \/ run_wasm_get_exception
    \/ run_wasm_cleanup
    \/ host_get_temperature
    \/ host_get_temperature_take
    \/ host_get_temperature_timeout
    \/ host_get_temperature_read
    \/ host_get_temperature_return
    \/ host_set_heater
    \/ host_set_heater_take
    \/ host_set_heater_timeout
    \/ host_set_heater_store
    \/ host_set_heater_log
    \/ host_set_heater_gpio
    \/ host_delay
    \/ host_delay_return
    \/ host_log

Spec == Init /\ [][Next]_vars

----------------------------------------------------------------------------
(* Properties *)

\* the steps of the periodic task of a command loop
CmdLoopStep ==
    \/ loop_take
    \/ loop_timeout
    \/ loop_read
    \/ physics_update
    \/ physics_send
    \/ sender_send
    \/ loop_delay

\* the positions at which a context reads or writes current_temp or heater_cmd
AccessesShared(n, ctx, p) ==
    \/ ctx = "task" /\ n \in Nodes /\ p = "cs"
    \/ ctx = "task" /\ n = "bridge1" /\ p = "physics"
    \/ ctx = "task" /\ n = "controller_wamr" /\ p = "log"
    \/ ctx = "recv" /\ n \in RecvNodes /\ p = "cs"
    \/ ctx = "recv" /\ n = "controller2" /\ p = "log"
    \/ ctx = "wasm" /\ n \in WasmNodes /\ p \in {"hg_cs", "hs_cs"}

\* the (device_id, id) pair of the packets the other role's sender builds
FromPeerSender(n, p) ==
    LET peer == IF n = "bridge1" THEN command_packet(0, 0) ELSE sensor_packet(0, 0)
    IN  p.device_id = peer.device_id /\ p.id = peer.id

\* C1: a receive handler that is handed a buffer whose length is not
\* sizeof(SimPacket) returns at once: it does not go on to take the mutex,
\* and current_temp, heater_cmd and the mutex are as before.
C1_WrongLengthDropped ==
    [][(rx'.len # SizeofSimPacket /\ onReceiveData)
          => (pc_r' = "idle" /\ UNCHANGED <<current_temp, heater_cmd, mutex>>)]_vars

\* C1 witness: a buffer one byte short or long was delivered and the handler
\* has returned
C1_Witness ==
    /\ rx.len \notin {0, SizeofSimPacket}
    /\ pc_r = "idle"
    /\ node = "controller1"

\* C2: a right-length packet whose (device_id, id) is not the pair the other
\* role's sender puts on the wire makes the handler return with both shared
\* fields and the mutex untouched; the handler is on its way to the store, and
\* stores, only for a packet with that pair.
C2_OnlyExpectedPairStored ==
    [][/\ (rx'.len = SizeofSimPacket /\ ~FromPeerSender(node, rx') /\ onReceiveData)
             => (pc_r' = "idle" /\ UNCHANGED <<current_temp, heater_cmd, mutex>>)
       /\ (recv_take \/ recv_timeout \/ recv_store)
             => (rx.len = SizeofSimPacket /\ FromPeerSender(node, rx))]_vars

\* C2 witness: the plant was handed a right-length packet that carries its own
\* role, after it had stored a command, and the handler has returned
C2_Witness ==
    /\ node = "bridge1"
    /\ rx.len = SizeofSimPacket
    /\ rx.device_id = 0 /\ rx.id = 1
    /\ pc_r = "idle"
    /\ heater_cmd = ONE

\* C3 (as claimed): in every reachable state heater_cmd lies in [0, 1].
C3_CmdInUnitInterval ==
    FGe(heater_cmd, 0) /\ FLe(heater_cmd, ONE)

\* C4: a command loop whose xSemaphoreTake failed uses 0.0 as the command of
\* that iteration (the packet it sends carries 0.0, the physics step integrates
\* 0.0), the failed take leaves heater_cmd as it was, an iteration whose take
\* succeeded uses the stored command, and the task is never blocked: until
\* its delay it always has a step to take.
C4_TimeoutUsesZero ==
    /\ [](node \in CmdLoopNodes =>
            /\ (~take_t /\ pc_t \in {"physics", "send", "delay"}) => task_local = 0
            /\ (~take_t /\ pc_t = "delay" /\ node # "bridge1") => packet.value = 0
            /\ pc_t # "delay" => ENABLED CmdLoopStep)
    /\ [][/\ loop_timeout => UNCHANGED <<current_temp, heater_cmd, mutex>>
          /\ loop_read => task_local' = heater_cmd
          /\ (physics_update /\ ~take_t)
                => current_temp' = PhysicsStep(current_temp, 0)]_vars

\* C4 witness: the controller's sender timed out while the stored command was
\* 1.0, sent a packet carrying 0.0 and reached its delay; heater_cmd is still 1.0
C4_Witness ==
    /\ node = "controller1"
    /\ pc_t = "delay"
    /\ ~take_t
    /\ packet.value = 0
    /\ heater_cmd = ONE

\* C5 (as claimed): when host_get_temperature's xSemaphoreTake fails, the
\* value it is about to return is the reading stored in current_temp.
C5_TimeoutReturnsLastReading ==
    [][host_get_temperature_timeout => h_arg' = current_temp]_vars

\* C6 (as claimed): a context that is at a read or a write of current_temp or
\* heater_cmd holds the mutex.
C6_AllAccessGuarded ==
    /\ AccessesShared(node, "task", pc_t) => mutex = "task"
    /\ AccessesShared(node, "recv", pc_r) => mutex = "recv"
    /\ AccessesShared(node, "wasm", pc_w) => mutex = "wasm"

\* C7: once run_wasm has created the execution environment (so it reaches the
\* lookup), no handle is ever released twice, the instance is released only
\* after the execution environment, the module only after the instance, and
\* when run_wasm has returned all three have been released.
C7_TeardownOrder ==
    exec_env # "null" =>
        /\ {exec_env, module_inst, module} \subseteq {"live", "released"}
        /\ module_inst = "released" => exec_env = "released"
        /\ module = "released" => module_inst = "released"
        /\ pc_w = "returned" => module = "released"

\* C7 witness: the guest trapped and run_wasm has returned after the teardown
C7_Witness ==
    /\ pc_w = "returned"
    /\ report = "WASM exception"
    /\ exec_env = "released"

\* C8: when run_wasm has returned, every handle is either one that was never
\* created and never released, or one that was created and released once;
\* which ones were created is fixed by the path that was taken.
C8_NoLeakNoDoubleFree ==
    pc_w = "returned" =>
        /\ {module, module_inst, exec_env} \subseteq {"null", "released"}
        /\ report = "WASM load failed" =>
              module = "null" /\ module_inst = "null" /\ exec_env = "null"
        /\ report = "WASM instantiation failed" =>
              module = "released" /\ module_inst = "null" /\ exec_env = "null"
        /\ report = "Exec env creation failed" =>
              module = "released" /\ module_inst = "released" /\ exec_env = "null"
        /\ report \in {"No main function found", "WASM execution terminated",
                       "WASM exception", "WASM execution completed successfully"} =>
              module = "released" /\ module_inst = "released" /\ exec_env = "released"

\* C8 witness: instantiation failed and run_wasm has returned with the module
\* unloaded
C8_Witness ==
    /\ pc_w = "returned"
    /\ report = "WASM instantiation failed"
    /\ module = "released"

\* the positions at which run_wasm calls into the guest, or the guest runs
InGuestPcs == {"lookup", "call", "guest", "hg_take", "hg_cs", "hg_return",
               "hs_take", "hs_cs", "hs_log", "hd_sleep", "get_exception"}

\* C9: the lookup, the call of the entry point (with every host call the guest
\* makes during it) and the reading of the exception happen only while the
\* module, its instance and its execution environment are all live; an
\* instance is live only between its instantiation and the teardown.
C9_CallsOnlyWhileLive ==
    /\ pc_w \in InGuestPcs =>
          module = "live" /\ module_inst = "live" /\ exec_env = "live"
    /\ module_inst = "live" =>
          pc_w \in InGuestPcs \cup {"create_exec_env", "cleanup_1", "cleanup_2"}

\* C9 witness: the entry point has failed and run_wasm is about to read the
\* exception of the live instance
C9_Witness ==
    /\ pc_w = "get_exception"
    /\ exception # NoException
    /\ module_inst = "live"

\* C10: an iteration of a sending loop calls esp_now_send once, on the packet
\* built in that iteration; whatever esp_now_send returns, the task goes on to
\* its delay with the shared fields, the command it read and the iteration
\* count as they were, and from the delay it starts the next iteration.
C10_OneSendPerTick ==
    /\ [](node \in CmdLoopNodes =>
            /\ sends = (IF pc_t = "delay" THEN 1 ELSE 0)
            /\ pc_t = "delay" => packet # NoPacket
            /\ (pc_t = "delay" /\ node # "bridge1") =>
                  packet = command_packet(task_local, packet_counter - 1)
            /\ (pc_t = "delay" /\ ticks < MaxTicks) => ENABLED loop_delay)
    /\ [][(physics_send \/ sender_send) =>
            /\ pc_t' = "delay"
            /\ UNCHANGED <<current_temp, heater_cmd, mutex, task_local, ticks>>
            /\ packet_counter' = packet_counter + (IF node = "bridge1" THEN 0 ELSE 1)]_vars

\* C10 witness: in its second iteration the controller's sender was told that
\* the send failed, and it is at its delay having called esp_now_send once
C10_Witness ==
    /\ node = "controller1"
    /\ pc_t = "delay"
    /\ result = ESP_FAIL
    /\ sends = 1
    /\ ticks = 1
    /\ packet.counter = 1

----------------------------------------------------------------------------
(* Packets delivered in any order of their counters *)

\* the receive callback, and the periodic task as far as it contends for the
\* mutex
InitRx == Init /\ node \in RecvNodes

NextRx ==
    \/ onReceiveData_seq
    \/ recv_take
    \/ recv_timeout
    \/ recv_store
    \/ recv_log
    \/ loop_take
    \/ loop_read

SpecRx == InitRx /\ [][NextRx]_vars

\* C11: whatever the counter field of a delivered right-length packet is, and
\* however it compares with the counters of the packets stored before, the
\* handler goes on to the store exactly when the packet carries the expected
\* (device_id, id), and what it stores is fixed by the packet's value alone:
\* the last accepted packet determines the stored field.
C11_CounterHasNoEffect ==
    [][/\ onReceiveData_seq =>
             /\ (pc_r' = "take") <=> FromPeerSender(node, rx')
             /\ (pc_r' = "take" /\ node = "bridge1") => new_cmd' = bridge_clamp(rx'.value)
             /\ UNCHANGED <<current_temp, heater_cmd, mutex>>
       /\ recv_store =>
             /\ node = "bridge1" => heater_cmd' = bridge_clamp(rx.value)
             /\ node # "bridge1" => current_temp' = rx.value]_vars

\* C11 witness: the controller stored a packet with counter 2 and then one
\* with counter 0, and holds the reading of the latter
C11_Witness ==
    /\ node = "controller1"
    /\ pc_r = "idle"
    /\ stored_counters = <<2, 0>>
    /\ rx.counter = 0 /\ rx.value = 52 * ONE
    /\ current_temp = 52 * ONE

----------------------------------------------------------------------------
(* The wire record: a SimPacket object, its bytes, the same bytes read back *)

\* A 32-bit object (the float's bit pattern, the uint32_t) is the pair of its
\* high and low 16 bits
Halves == {0, 1, 255, 256, 16256, 48896, 65535}
Words == { <<hi, lo>> : hi \in Halves, lo \in {0, 1, 65535} }
\* uint8_t values of the two header fields
HeaderBytes == {0, 1, 255}

\* the four bytes of a 32-bit object in memory (little-endian ESP32)
WordBytes(w) == <<w[2] % 256, w[2] \div 256, w[1] % 256, w[1] \div 256>>

\* (uint8_t *)&packet, sizeof(SimPacket): the bytes of the packed struct
PacketBytes(p) == <<p.device_id, p.id>> \o WordBytes(p.value) \o WordBytes(p.counter)

\* the 32-bit object at byte offset off of data (0-based)
WordAt_be(data, off) ==
    <<data[off + 1] * 256 + data[off + 2], data[off + 3] * 256 + data[off + 4]>>
WordAt(data, off) ==
    <<data[off + 4] * 256 + data[off + 3], data[off + 2] * 256 + data[off + 1]>>

\* the offsets of the fields of the packed struct on the receiving node
ReceiverOffsets == [device_id |-> 0, id |-> 1, value |-> 2, counter |-> 6]

\* SimPacket *p = (SimPacket *)data; p->device_id, p->id, p->value, p->counter
PacketAt(data) ==
    [len |-> Len(data),
     device_id |-> data[ReceiverOffsets.device_id + 1],
     id |-> data[ReceiverOffsets.id + 1],
     value |-> WordAt(data, ReceiverOffsets.value),
     counter |-> WordAt(data, ReceiverOffsets.counter)]

InitWire == Init /\ node \in {"bridge1", "controller1"}

\* SimPacket packet = {.device_id = ..., .id = ..., .value = ..., .counter = ...}
wire_build ==
    /\ tx_packet.len = 0
    /\ \E d \in HeaderBytes, i \in HeaderBytes, v \in Words, c \in Words :
         tx_packet' = SimPacket(d, i, v, c)
    /\ UNCHANGED <<node, shared, task_vars, recv_vars, wasm_vars, ghost_vars,
                   wire, rx_packet, law_vars, plant_vars, guest_vars, link_vars>>

\* esp_now_send(mac, (uint8_t *)&packet, sizeof(SimPacket)); the link
\* delivers the bytes unchanged
wire_send ==
    /\ tx_packet.len # 0
    /\ wire = <<>>
    /\ wire' = PacketBytes(tx_packet)
    /\ UNCHANGED <<node, shared, task_vars, recv_vars, wasm_vars, ghost_vars,
                   tx_packet, rx_packet, law_vars, plant_vars, guest_vars, link_vars>>

\* onReceiveData(info, data, len): if (len == sizeof(SimPacket)) the fields are
\* read through the cast pointer
wire_receive ==
    /\ wire # <<>>
    /\ rx_packet.len = 0
    /\ Len(wire) = SizeofSimPacket
    /\ rx_packet' = PacketAt(wire)
    /\ UNCHANGED <<node, shared, task_vars, recv_vars, wasm_vars, ghost_vars,
                   tx_packet, wire, law_vars, plant_vars, guest_vars, link_vars>>

NextWire ==
    \/ wire_build
    \/ wire_send
    \/ wire_receive

SpecWire == InitWire /\ [][NextWire]_vars

\* C12: the bytes handed to the link are sizeof(SimPacket) bytes, each a byte,
\* and the four fields read from them on the receiving node are the four
\* fields the sender put into its SimPacket.
C12_RoundTrip ==
    /\ wire # <<>> =>
          /\ Len(wire) = SizeofSimPacket
          /\ \A k \in 1..Len(wire) : wire[k] \in 0..255
    /\ rx_packet.len # 0 =>
          /\ rx_packet.len = tx_packet.len
          /\ rx_packet.device_id = tx_packet.device_id
          /\ rx_packet.id = tx_packet.id
          /\ rx_packet.value = tx_packet.value
          /\ rx_packet.counter = tx_packet.counter

\* C12 witness: a packet whose value is the pattern of -0.5f (0xBF000000) and
\* whose counter is 0x0100FFFF was built, sent and read back
C12_Witness ==
    /\ rx_packet.len # 0
    /\ tx_packet.value = <<48896, 0>>
    /\ tx_packet.counter = <<256, 65535>>
    /\ tx_packet.device_id = 1

----------------------------------------------------------------------------
(* The header fields of the packets the senders build *)

\* C13 (as claimed): a packet the plant builds for a reading has device_id 0
\* and id 0, and a packet a controller builds for a command has device_id 1
\* and id 1, so that the id field alone tells a reading from a command.
C13_KindEncoding ==
    /\ (node = "bridge1" /\ packet # NoPacket) =>
          packet.device_id = 0 /\ packet.id = 0
    /\ (node \in {"controller1", "controller2"} /\ packet # NoPacket) =>
          packet.device_id = 1 /\ packet.id = 1

----------------------------------------------------------------------------
(* The hysteresis law: controller2.c natively, containers/controller.c as guest *)

\* containers/controller.c: TARGET_TEMP, HYSTERESIS
TARGET_TEMP == 50 * ONE
HYSTERESIS == ONE

\* containers/controller.c main: one pass of the loop with reading temp and
\* int heater_state; host_set_heater(1) / (0) is called when the state changes
guest_law_nonstrict(temp, heater_state) ==
    IF FLe(temp, TARGET_TEMP - HYSTERESIS) THEN 1
    ELSE IF FGe(temp, TARGET_TEMP + HYSTERESIS) THEN 0
    ELSE heater_state
guest_law(temp, heater_state) ==
    IF FLt(temp, TARGET_TEMP - HYSTERESIS)
    THEN (IF heater_state = 0 THEN 1 ELSE heater_state)
    ELSE IF FGt(temp, TARGET_TEMP + HYSTERESIS)
         THEN (IF heater_state = 1 THEN 0 ELSE heater_state)
         ELSE heater_state

\* readings around the two thresholds, and one that is not a number
LawInputs == {NaN, 48 * ONE, 49 * ONE, 49 * ONE + F_0_5, 50 * ONE + F_0_5,
              51 * ONE, 52 * ONE}

\* the last element of a sequence of commands, or the initial command
LastOr(cmds, initial) == IF cmds = <<>> THEN initial ELSE cmds[Len(cmds)]

InitLaw == Init /\ node = "controller2"

\* one more reading: controller2.c's handler stores it and applies its law to
\* heater_cmd (initially 0.0f); the guest reads it and applies its law to
\* heater_state (initially 0)
law_step ==
    /\ Len(law_readings) < MaxReadings
    /\ \E r \in LawInputs :
         /\ law_readings' = Append(law_readings, r)
         /\ law_native' = Append(law_native, bang_bang(r, LastOr(law_native, 0)))
         /\ law_guest' = Append(law_guest, guest_law(r, LastOr(law_guest, 0)))
    /\ UNCHANGED <<node, shared, task_vars, recv_vars, wasm_vars, ghost_vars,
                   wire_vars, plant_vars, guest_vars, link_vars>>

NextLaw ==
    \/ law_step

SpecLaw == InitLaw /\ [][NextLaw]_vars

\* C14: after every reading the command is ON or OFF; it is ON after a reading
\* below 49.0, OFF after a reading above 51.0, and what it was before (OFF at
\* the start) after any other reading, so it turns ON only below 49.0 and OFF
\* only above 51.0; the guest's law gives the same commands; the readings
\* 48.0, 49.5, 50.5, 52.0 give ON, ON, ON, OFF.
C14_HysteresisLaw ==
    /\ \A k \in 1..Len(law_readings) :
          LET r == law_readings[k]
              before == IF k = 1 THEN 0 ELSE law_native[k - 1]
              number == r # NaN
          IN  /\ law_native[k] \in {0, ONE}
              /\ (number /\ r < 49 * ONE) => law_native[k] = ONE
              /\ (number /\ r > 51 * ONE) => law_native[k] = 0
              /\ ~(number /\ (r < 49 * ONE \/ r > 51 * ONE)) => law_native[k] = before
              /\ law_guest[k] = (IF law_native[k] = ONE THEN 1 ELSE 0)
    /\ law_readings = <<48 * ONE, 49 * ONE + F_0_5, 50 * ONE + F_0_5, 52 * ONE>> =>
          /\ law_native = <<ONE, ONE, ONE, 0>>
          /\ law_guest = <<1, 1, 1, 0>>

\* C14 witness: the readings 48.0, 49.5, 50.5, 52.0 were presented and the
\* commands were ON, ON, ON, OFF
C14_Witness ==
    /\ law_readings = <<48 * ONE, 49 * ONE + F_0_5, 50 * ONE + F_0_5, 52 * ONE>>
    /\ law_native = <<ONE, ONE, ONE, 0>>
    /\ law_guest = <<1, 1, 1, 0>>

----------------------------------------------------------------------------
(* What the controllers' receive handler writes *)

\* C15 (as claimed): no step of a controller's receive handler changes
\* heater_cmd; the guarded block only copies the reading into current_temp.
C15_HandlerOnlyDeposits ==
    [][(/\ node \in {"controller1", "controller2"}
        /\ (onReceiveData \/ recv_take \/ recv_timeout \/ recv_store \/ recv_log))
          => heater_cmd' = heater_cmd]_vars

----------------------------------------------------------------------------
(* The controller node running without end *)

\* int32_t packet_counter wraps; here after CounterWrap packets
CounterWrap == 2

\* sender_task as in sender_send, the counter kept in 0..CounterWrap - 1
sender_send_wrap ==
    /\ node = "controller1"
    /\ pc_t = "send"
    /\ packet' = command_packet(task_local, packet_counter)
    /\ packet_counter' = (packet_counter + 1) % CounterWrap
    /\ \E r \in SendResults :
         /\ result' = r
         /\ pc_t' = AfterSend(r)
    /\ sends' = sends + 1
    /\ UNCHANGED <<node, shared, take_t, task_local, ticks, recv_vars, wasm_vars,
                   ghost_vars, wire_vars, law_vars, plant_vars, guest_vars, link_vars>>

\* vTaskDelay(pdMS_TO_TICKS(SEND_INTERVAL_MS)) and the next pass of while (1),
\* the passes not counted
sender_period ==
    /\ node = "controller1"
    /\ pc_t = "delay"
    /\ pc_t' = "take"
    /\ take_t' = FALSE
    /\ task_local' = 0
    /\ packet' = NoPacket
    /\ result' = ESP_OK
    /\ sends' = 0
    /\ UNCHANGED <<node, shared, packet_counter, ticks, recv_vars, wasm_vars,
                   ghost_vars, wire_vars, law_vars, plant_vars, guest_vars, link_vars>>

\* what the plant and other transmitters keep sending to the controller: two
\* readings, a packet of the controller's own role, a short buffer
LiveBuffers ==
    {sensor_packet(48 * ONE, 0), sensor_packet(52 * ONE, 0),
     command_packet(F_0_5, 0),
     [sensor_packet(48 * ONE, 0) EXCEPT !.len = SizeofSimPacket - 1]}

onReceiveData_live == Deliver(LiveBuffers)

\* an accepted reading arrives
reading_arrives == onReceiveData_live /\ pc_r' = "take"

InitLive == Init /\ node = "controller1"

SenderStep ==
    \/ loop_take
    \/ loop_timeout
    \/ loop_read
    \/ sender_send_wrap
    \/ sender_period

HandlerStep ==
    \/ recv_take
    \/ recv_timeout
    \/ recv_store

NextLive ==
    \/ loop_take
    \/ loop_timeout
    \/ loop_read
    \/ sender_send_wrap
    \/ sender_period
    \/ onReceiveData_live
    \/ recv_take
    \/ recv_timeout
    \/ recv_store
    \/ wasm_thread_entry_fail
    \/ wasm_thread_entry
    \/ run_wasm_load
    \/ run_wasm_load_fail
    \/ run_wasm_instantiate
    \/ run_wasm_instantiate_fail
    \/ run_wasm_create_exec_env
    \/ run_wasm_create_exec_env_fail
    \/ run_wasm_lookup
    \/ run_wasm_call
    \/ guest_return
    \/ guest_trap
    \/ run_wasm_get_exception
    \/ run_wasm_cleanup
    \/ host_get_temperature
    \/ host_get_temperature_take
    \/ host_get_temperature_timeout
    \/ host_get_temperature_read
    \/ host_get_temperature_return
    \/ host_set_heater
    \/ host_set_heater_take
    \/ host_set_heater_timeout
    \/ host_set_heater_store
    \/ host_set_heater_log
    \/ host_delay
    \/ host_delay_return
    \/ host_log

\* The FreeRTOS scheduler runs the sender task and the Wi-Fi task's callback
\* whenever they are ready; readings keep arriving; a handler that waits
\* again and again (10 ms each time) for a mutex that is released again and
\* again (it is held for one copy) gets it. Nothing is assumed of the WASM
\* pthread, nor of a mutex that is never released.
SpecLive ==
    /\ InitLive
    /\ [][NextLive]_vars
    /\ WF_vars(SenderStep)
    /\ WF_vars(HandlerStep)
    /\ WF_vars(reading_arrives)
    /\ ([]<>(pc_r = "take") /\ []<>(mutex = "free")) => []<>(pc_r = "cs")

\* the handler has deposited the reading it was called with
Deposited == pc_r = "idle" /\ take_r

\* C16: once run_wasm has ended, whatever its outcome, the sender task again
\* and again reaches its esp_now_send and then its next period, and the
\* receive handler again and again deposits a reading.
C16_NodeKeepsRunning ==
    /\ (pc_w = "returned" /\ pc_t # "delay") ~> (pc_t = "delay" /\ sends = 1)
    /\ (pc_w = "returned" /\ pc_t = "delay") ~> (pc_t = "take")
    /\ (pc_w = "returned" /\ ~Deposited) ~> Deposited
    /\ (pc_w = "returned" /\ Deposited) ~> (pc_r = "take")

\* C16 witness: the guest faulted, run_wasm has returned, and after that the
\* sender has sent a packet and the handler has deposited the reading 52.0
C16_Witness ==
    /\ pc_w = "returned"
    /\ report = "WASM exception"
    /\ pc_t = "delay" /\ sends = 1
    /\ Deposited /\ current_temp = 52 * ONE
    /\ mutex = "free"

----------------------------------------------------------------------------
(* A control program that cannot be prepared *)

\* the ESP_LOGE texts of the paths that end before the entry point is looked up
PreparationFailures ==
    {"SPIFFS Mount Failed", "WAMR Init Failed", "WASM load failed",
     "WASM instantiation failed", "Exec env creation failed"}

\* C17: when the program cannot be prepared (runtime not set up, bytes
\* missing, load, instantiate or exec-env failure) the failure is reported,
\* the thread has returned without looking up or calling the entry point (no
\* function handle, no guest run, no exception), and heater_cmd and the
\* heater output still hold their initial value.
C17_PreparationFailureAbstains ==
    (node \in WasmNodes /\ report \in PreparationFailures) =>
        /\ pc_w = "returned"
        /\ func = FALSE
        /\ exception = NoException /\ stop_cause = ""
        /\ heater_cmd = 0 /\ heater_gpio = 0
        /\ exec_env = "null"

\* C17 witness: the image called run_wasm with no bytes, the load failed, and
\* the reader task has run since
C17_Witness ==
    /\ node = "controller_wamr"
    /\ report = "WASM load failed"
    /\ pc_w = "returned" /\ module = "null"
    /\ ticks = 1

----------------------------------------------------------------------------
(* The two reports of a failed entry-point call *)

\* C18: after a failed call the report is "WASM execution terminated" exactly
\* when the host stopped the guest, and "WASM exception" for every fault the
\* program caused, whatever its text.
C18_TerminatedIffHostStop ==
    (pc_w \in {"cleanup_1", "cleanup_2", "cleanup_3", "returned"} /\ stop_cause # "") =>
        /\ (report = "WASM execution terminated") <=> (stop_cause = "host")
        /\ (stop_cause = "program") => (report = "WASM exception")

----------------------------------------------------------------------------
(* The guest asleep in host_delay *)

\* C19: while the guest sleeps in host_delay the WASM thread does not hold the
\* mutex; a receive handler or sender task that wants the mutex can take it
\* unless the other of the two holds it, and the one that holds it can
\* complete its guarded step.
C19_SleepHoldsNoGuard ==
    (node = "controller1" /\ pc_w = "hd_sleep") =>
        /\ mutex # "wasm"
        /\ (pc_r = "take") => (mutex = "task" \/ ENABLED recv_take)
        /\ (pc_t = "take") => (mutex = "recv" \/ ENABLED loop_take)
        /\ (pc_r = "cs") => (mutex = "recv" /\ ENABLED recv_store)
        /\ (pc_t = "cs") => (mutex = "task" /\ ENABLED loop_read)

\* C19 witness: during a guest sleep the receive handler holds the mutex it
\* took, with a reading to deposit, and the sender task has sent a packet
C19_Witness ==
    /\ node = "controller1"
    /\ pc_w = "hd_sleep"
    /\ pc_r = "cs" /\ mutex = "recv" /\ rx.value = 48 * ONE
    /\ pc_t = "delay" /\ sends = 1

----------------------------------------------------------------------------
(* What a host call touches *)

\* a step of one of the natives registered in native_symbols
HostCallStep ==
    \/ host_get_temperature
    \/ host_get_temperature_take
    \/ host_get_temperature_timeout
    \/ host_get_temperature_read
    \/ host_get_temperature_return
    \/ host_set_heater
    \/ host_set_heater_take
    \/ host_set_heater_timeout
    \/ host_set_heater_store
    \/ host_set_heater_log
    \/ host_set_heater_gpio
    \/ host_delay
    \/ host_delay_return
    \/ host_log

\* C20: no step of a host call drives the heater output, sends a packet or
\* changes current_temp, and heater_cmd is changed by a host call only while
\* the WASM thread holds the mutex.
C20_HostCallsOnlyThroughSharedState ==
    [][HostCallStep =>
          /\ heater_gpio' = heater_gpio
          /\ sends' = sends /\ packet' = packet
          /\ current_temp' = current_temp
          /\ (heater_cmd' # heater_cmd) => (mutex = "wasm")]_vars

----------------------------------------------------------------------------
(* Writes under contention *)

\* C21: no update is lost: when host_set_heater returns to the guest,
\* heater_cmd is the clamped argument of the call, and when onReceiveData
\* returns from an accepted packet the stored field is that packet's
\* (clamped) value.
C21_NoLostUpdate ==
    [][/\ host_set_heater_log => heater_cmd = h_arg
       /\ (recv_timeout \/ recv_store) =>
              IF node = "bridge1" THEN heater_cmd' = new_cmd
                                  ELSE current_temp' = rx.value]_vars

----------------------------------------------------------------------------
(* The thermal plant over many ticks: bridge.c and bridge1.c *)

\* the two plant images; bridge.c has the same AMBIENT_TEMP, HEATING_RATE,
\* COOLING_RATE, THERMAL_MASS and noise range as bridge1.c
PlantImages == {"bridge", "bridge1"}

\* bridge.c: #define MAX_TEMP 100.0f
MAX_TEMP == 100 * ONE
\* bridge1.c: #define MAX_HEATER_TEMP 200.0f (no statement uses it)
MAX_HEATER_TEMP == 200 * ONE

max_temperature(p) == IF p = "bridge" THEN MAX_TEMP ELSE MAX_HEATER_TEMP

\* the clamp with its two comparisons turned round
temp_clamp_swapped(t) ==
    LET hi == IF FLt(t, MAX_TEMP) THEN MAX_TEMP ELSE t
    IN  IF FGt(hi, AMBIENT_TEMP) THEN AMBIENT_TEMP ELSE hi

\* bridge.c: if (current_temp > MAX_TEMP) current_temp = MAX_TEMP;
\*           if (current_temp < AMBIENT_TEMP) current_temp = AMBIENT_TEMP;
temp_clamp(t) ==
    LET hi == IF FGt(t, MAX_TEMP) THEN MAX_TEMP ELSE t
    IN  IF FLt(hi, AMBIENT_TEMP) THEN AMBIENT_TEMP ELSE hi

\* the pass computed with full power instead of the command read
PlantTick_full_power(p, temp, cmd) ==
    IF p = "bridge" THEN temp_clamp(PhysicsStep(temp, ONE))
                    ELSE PhysicsStep(temp, ONE)

\* current_temp after one pass of the loop body of image p
PlantTick(p, temp, cmd) ==
    IF p = "bridge" THEN temp_clamp(PhysicsStep(temp, cmd))
                    ELSE PhysicsStep(temp, cmd)

\* the commands a tick uses: bridge.c casts a GPIO level, bridge1.c reads the
\* clamped heater_cmd (a number of [0,1]) or takes 0.0f on a timeout
PlantCmds(p) == IF p = "bridge" THEN {0, ONE} ELSE {0, F_0_5, ONE}

\* the record of the commands used so far: "off" / "on" while every tick
\* used 0.0 / 1.0, "cooling" while every tick since the last heated one used
\* 0.0, "mixed" otherwise
HeldAfter(h, cmd) ==
    IF cmd = 0 THEN (IF h \in {"none", "off"} THEN "off" ELSE "cooling")
    ELSE IF cmd = ONE /\ h \in {"none", "on"} THEN "on"
    ELSE "mixed"

\* app_main of a plant image starts the loop; current_temp has its initializer
plant_boot ==
    /\ plant = ""
    /\ plant' \in PlantImages
    /\ plant_temp' = AMBIENT_TEMP
    /\ UNCHANGED <<plant_reading, plant_held, plant_ticks, capture_vars>>
    /\ UNCHANGED <<node, shared, task_vars, recv_vars, wasm_vars, ghost_vars,
                   wire_vars, law_vars, guest_vars, link_vars>>

\* one pass of while (1): the physics update, the clamp (bridge.c) and the
\* noisy reading
plant_tick ==
    /\ plant # ""
    /\ \E cmd \in PlantCmds(plant), noise \in NoiseValues :
         /\ plant_temp' = PlantTick(plant, plant_temp, cmd)
         /\ plant_reading' = FAdd(plant_temp', noise)
         /\ plant_held' = HeldAfter(plant_held, cmd)
    /\ plant_ticks' = IF plant_ticks < MaxPlantTicks THEN plant_ticks + 1
                                                    ELSE plant_ticks
    /\ UNCHANGED <<plant, capture_vars>>
    /\ UNCHANGED <<node, shared, task_vars, recv_vars, wasm_vars, ghost_vars,
                   wire_vars, law_vars, guest_vars, link_vars>>

InitPlant == Init /\ node = "bridge1"

NextPlant ==
    \/ plant_boot
    \/ plant_tick

SpecPlant == InitPlant /\ [][NextPlant]_vars

\* C22: after every tick, whatever commands of [0,1] were used, the plant's
\* temperature lies between AMBIENT_TEMP and the image's maximum temperature.
C22_TemperatureInRange ==
    (plant # "") =>
        /\ FGe(plant_temp, AMBIENT_TEMP)
        /\ FLe(plant_temp, max_temperature(plant))

\* C22 witness: bridge1.c, which has no clamp, after ticks with different
\* commands and the last of them with the heater off
C22_Witness ==
    /\ plant = "bridge1"
    /\ plant_held = "mixed"
    /\ plant_ticks = 12
    /\ plant_temp > AMBIENT_TEMP /\ plant_temp < AMBIENT_TEMP + ONE \div 10

\* C23: with the command 1 on every tick the temperature never exceeds the
\* maximum temperature and converges to it: the only temperature that a
\* further tick with the command 1 leaves unchanged is the maximum.
C23_SaturatesAtMax ==
    (plant # "" /\ plant_held = "on") =>
        /\ FLe(plant_temp, max_temperature(plant))
        /\ (PlantTick(plant, plant_temp, ONE) = plant_temp) =>
               (plant_temp = max_temperature(plant))

\* C24: a tick with the command 0, on every tick since the start or since
\* the last heated tick, leaves the temperature no higher than before and not
\* below AMBIENT_TEMP, and leaves a temperature equal to AMBIENT_TEMP
\* unchanged; the noise does not enter the temperature. The same holds for
\* the law at temperatures above those the heater reaches, up to the maximum.
C24_ZeroInputCoolsToAmbient ==
    [][(plant # "" /\ plant_held' \in {"off", "cooling"}) =>
          /\ FLe(plant_temp', plant_temp)
          /\ FGe(plant_temp', AMBIENT_TEMP)
          /\ (plant_temp = AMBIENT_TEMP) => (plant_temp' = AMBIENT_TEMP)
          /\ \A t \in {66 * ONE, 99 * ONE, max_temperature(plant)} :
                /\ FLe(PlantTick(plant, t, 0), t)
                /\ FGe(PlantTick(plant, t, 0), AMBIENT_TEMP)]_vars

\* C24 witness: bridge1.c was heated and has then cooled, tick after tick
\* with the command 0, to within 0.1 of ambient
C24_Witness ==
    /\ plant = "bridge1"
    /\ plant_held = "cooling"
    /\ plant_ticks = MaxPlantTicks
    /\ plant_temp > AMBIENT_TEMP /\ plant_temp < AMBIENT_TEMP + ONE \div 10
    /\ plant_reading = plant_temp

\* C25: from 25.0 with the command 1.0 on each of the first 50 ticks, every
\* one of these ticks leaves the temperature strictly higher than before, and
\* the temperature is below the maximum after each of them, the 50th included.
C25_FiftyTicksFullPower ==
    [][(plant # "" /\ plant_held' = "on" /\ plant_ticks < 50
            /\ plant_ticks' = plant_ticks + 1) =>
          /\ FGt(plant_temp', plant_temp)
          /\ FLt(plant_temp', max_temperature(plant))]_vars

\* C25 witness: bridge.c after 50 ticks at full power with the noise at 0,
\* between 26.0 and 27.0
C25_Witness ==
    /\ plant = "bridge"
    /\ plant_held = "on"
    /\ plant_ticks = 50
    /\ plant_temp > 26 * ONE /\ plant_temp < 27 * ONE
    /\ plant_reading = plant_temp

----------------------------------------------------------------------------
(* The mutex is held for the guarded statements only *)

\* C26: in every image a context holds the mutex only at its guarded
\* statements, never where it delays, sends, logs or returns; so at most one
\* context is inside its guarded block, the holder's next step (which gives
\* the mutex back) is always possible, and a context at its xSemaphoreTake
\* can always go on, with the mutex or after the bounded wait.
C26_GuardHeldOnlyInBlock ==
    /\ (mutex = "task") <=> (pc_t = "cs")
    /\ (mutex = "recv") <=> (pc_r = "cs")
    /\ (mutex = "wasm") <=> (pc_w \in {"hg_cs", "hs_cs"})
    /\ (mutex = "task") => ENABLED (loop_read \/ reader_store)
    /\ (mutex = "recv") => ENABLED recv_store
    /\ (mutex = "wasm") => ENABLED (host_get_temperature_read \/ host_set_heater_store)
    /\ (pc_t = "take") => ENABLED (loop_take \/ loop_timeout \/ reader_take \/ reader_timeout)
    /\ (pc_r = "take") => ENABLED (recv_take \/ recv_timeout)
    /\ (pc_w \in {"hg_take", "hs_take"}) =>
           ENABLED (host_get_temperature_take \/ host_get_temperature_timeout
                      \/ host_set_heater_take \/ host_set_heater_timeout)

\* C26 witness: on controller1 the receive handler is inside its guarded block
\* while the sender task and the guest's host_set_heater both wait for the
\* mutex
C26_Witness ==
    /\ node = "controller1"
    /\ mutex = "recv" /\ pc_r = "cs"
    /\ pc_t = "take"
    /\ pc_w = "hs_take"

----------------------------------------------------------------------------
(* A write path whose xSemaphoreTake fails *)

\* C27: when host_set_heater or onReceiveData (accepted packet) does not get
\* the mutex, it changes neither current_temp nor heater_cmd and goes on to
\* the statement after the guarded block; host_set_heater then logs and
\* returns to the guest exactly as after a store, with no exception and no
\* report, and the handler returns.
C27_FailedWriteIsSilent ==
    [][/\ host_set_heater_timeout =>
              /\ UNCHANGED <<current_temp, heater_cmd, mutex, exception, report>>
              /\ pc_w' = "hs_log"
       /\ host_set_heater_log =>
              /\ UNCHANGED <<current_temp, heater_cmd, mutex, exception, report>>
              /\ pc_w' = "guest"
       /\ recv_timeout =>
              /\ UNCHANGED <<current_temp, heater_cmd, mutex>>
              /\ pc_r' = AfterStore(node)]_vars

\* C27 witness: host_set_heater(1.5) has failed to take the mutex held by
\* another context and is at its log statement, heater_cmd still 0.0
C27_Witness ==
    /\ node = "controller1"
    /\ pc_w = "hs_log" /\ take_w = FALSE
    /\ h_arg = ONE /\ heater_cmd = 0
    /\ mutex \in {"task", "recv"}

----------------------------------------------------------------------------
(* bridge.c: the PWM capture and the integrator *)

\* edata->cap_value of the capture events, in microseconds of the 1 MHz timer
CaptureTimes == {0, 400, 1000, 1600}

\* uint32_t high_time_us = neg_edge_timestamp - pos_edge_timestamp; a
\* negative difference wraps to a value far above one period
high_time_us(neg, pos) == IF neg >= pos THEN neg - pos ELSE 1000 * ONE

\* float power = (float)high_time_us / 1000.0f;
\* if (power > 1.0f) power = 1.0f; if (power < 0.0f) power = 0.0f;
capture_power(neg, pos) ==
    LET power == (high_time_us(neg, pos) * ONE) \div 1000
        hi == IF FGt(power, ONE) THEN ONE ELSE power
    IN  IF FLt(hi, 0) THEN 0 ELSE hi

\* on_capture_event: a positive edge starts the timer, a negative edge
\* deposits the duty cycle in received_heater_power
on_capture_event ==
    /\ plant = "bridge"
    /\ \E cap_value \in CaptureTimes, cap_edge \in {"POS", "NEG"} :
         IF cap_edge = "POS"
         THEN /\ pos_edge_timestamp' = cap_value
              /\ UNCHANGED received_heater_power
         ELSE /\ received_heater_power' = capture_power(cap_value, pos_edge_timestamp)
              /\ UNCHANGED pos_edge_timestamp
    /\ UNCHANGED <<plant, plant_temp, plant_reading, plant_held, plant_ticks>>
    /\ UNCHANGED <<node, shared, task_vars, recv_vars, wasm_vars, ghost_vars,
                   wire_vars, law_vars, guest_vars, link_vars>>

\* one pass of physics_simulation_loop: heater_cmd is the level read by
\* gpio_get_level(PIN_HEATER_IN)
capture_tick ==
    /\ plant = "bridge"
    /\ plant_ticks < MaxCaptureTicks
    /\ plant_tick

NextCapture ==
    \/ plant_boot
    \/ on_capture_event
    \/ capture_tick

SpecCapture == InitPlant /\ [][NextCapture]_vars

\* C28: the command a tick of the plant integrates is the command most
\* recently deposited by the plant's receive path, 0.0 when none was deposited.
C28_TickConsumesDeposit ==
    [][capture_tick =>
          plant_temp' = PlantTick(plant, plant_temp, received_heater_power)]_vars

----------------------------------------------------------------------------
(* The counter field of the packets a node sends *)

----------------------------------------------------------------------------
(* The heater command after the guest has stopped *)

\* the positions of run_wasm from the failed call of the guest to its return
AfterGuestPcs == {"get_exception", "cleanup_1", "cleanup_2", "cleanup_3",
                  "returned"}

\* C30: on controller1, once the guest has stopped, neither the report, the
\* teardown nor anything after the return of run_wasm changes heater_cmd, and
\* run_wasm stays returned; every pass of the sender task made after the
\* return reads that heater_cmd under the mutex, or takes 0.0 when the take
\* fails, and puts the value it read into the packet.
C30_CommandFrozenAfterReturn ==
    [][(node = "controller1" /\ pc_w \in AfterGuestPcs) =>
          /\ heater_cmd' = heater_cmd
          /\ (pc_w = "returned") =>
                /\ pc_w' = "returned"
                /\ (pc_t = "cs" /\ pc_t' # "cs") => (task_local' = heater_cmd)
                /\ (pc_t = "take" /\ pc_t' \notin {"take", "cs"}) =>
                       (task_local' = 0)
                /\ (pc_t = "send" /\ pc_t' # "send") =>
                       (packet'.value = task_local)]_vars

\* C30 witness: the guest stored 1.0 and then faulted; run_wasm has returned
\* with the exception report, heater_cmd is still 1.0 and the sender task,
\* in its second pass, has sent a packet carrying 1.0
C30_Witness ==
    /\ node = "controller1"
    /\ pc_w = "returned" /\ report = "WASM exception"
    /\ stop_cause = "program"
    /\ heater_cmd = ONE
    /\ ticks = 1 /\ pc_t = "delay" /\ take_t = TRUE
    /\ packet.value = ONE

----------------------------------------------------------------------------
(* The guest program containers/controller.c, one host call per step *)

MaxSetHeater == 6

\* the host calls of the guest that the claim about its loop counts
LoopCalls == {"host_get_temperature", "host_set_heater", "host_delay"}

\* host_log("Temperature Controller Started"); host_log("Target: ...");
\* float current_temp; int heater_state = 0;
main_start ==
    /\ guest_pc = "start"
    /\ g_heater_state' = 0
    /\ guest_calls' = <<"host_log", "host_log">>
    /\ guest_pc' = "get_temperature"
    /\ UNCHANGED <<guest_temp, set_heater_args>>
    /\ UNCHANGED <<node, shared, task_vars, recv_vars, wasm_vars, ghost_vars,
                   wire_vars, law_vars, plant_vars, link_vars>>

\* while (1) { current_temp = host_get_temperature();
main_get_temperature ==
    /\ guest_pc = "get_temperature"
    /\ Len(set_heater_args) < MaxSetHeater
    /\ \E r \in LawInputs : guest_temp' = r
    /\ guest_calls' = <<"host_get_temperature">>
    /\ guest_pc' = "control"
    /\ UNCHANGED <<g_heater_state, set_heater_args>>
    /\ UNCHANGED <<node, shared, task_vars, recv_vars, wasm_vars, ghost_vars,
                   wire_vars, law_vars, plant_vars, link_vars>>

\* the same branch taken in every pass, whether or not heater_state changes
main_set_heater_always ==
    /\ guest_pc = "control"
    /\ LET to == IF FGt(guest_temp, TARGET_TEMP + HYSTERESIS) THEN 0 ELSE 1
       IN  /\ set_heater_args' = Append(set_heater_args, to)
           /\ g_heater_state' = to
    /\ guest_calls' = guest_calls \o <<"host_set_heater", "host_log">>
    /\ guest_pc' = "delay"
    /\ UNCHANGED guest_temp
    /\ UNCHANGED <<node, shared, task_vars, recv_vars, wasm_vars, ghost_vars,
                   wire_vars, law_vars, plant_vars, link_vars>>

\* if (current_temp < 49) { if (heater_state == 0) { host_set_heater(1);
\*   heater_state = 1; host_log(..); } } else if (current_temp > 51)
\*   { if (heater_state == 1) { host_set_heater(0); heater_state = 0; host_log(..); } }
main_set_heater ==
    /\ guest_pc = "control"
    /\ guest_law(guest_temp, g_heater_state) # g_heater_state
    /\ LET to == guest_law(guest_temp, g_heater_state)
       IN  /\ set_heater_args' = Append(set_heater_args, to)
           /\ g_heater_state' = to
    /\ guest_calls' = guest_calls \o <<"host_set_heater", "host_log">>
    /\ guest_pc' = "delay"
    /\ UNCHANGED guest_temp
    /\ UNCHANGED <<node, shared, task_vars, recv_vars, wasm_vars, ghost_vars,
                   wire_vars, law_vars, plant_vars, link_vars>>

\* neither inner branch is taken: within the band, or the state is already right
main_hold ==
    /\ guest_pc = "control"
    /\ guest_law(guest_temp, g_heater_state) = g_heater_state
    /\ guest_pc' = "delay"
    /\ UNCHANGED <<guest_temp, g_heater_state, guest_calls, set_heater_args>>
    /\ UNCHANGED <<node, shared, task_vars, recv_vars, wasm_vars, ghost_vars,
                   wire_vars, law_vars, plant_vars, link_vars>>

\* host_delay(CONTROL_PERIOD); }  -- and back to the head of the loop
main_delay ==
    /\ guest_pc = "delay"
    /\ guest_calls' = Append(guest_calls, "host_delay")
    /\ guest_pc' = "get_temperature"
    /\ UNCHANGED <<guest_temp, g_heater_state, set_heater_args>>
    /\ UNCHANGED <<node, shared, task_vars, recv_vars, wasm_vars, ghost_vars,
                   wire_vars, law_vars, plant_vars, link_vars>>

InitGuest == Init /\ node = "controller_wamr"

NextGuest ==
    \/ main_start
    \/ main_get_temperature
    \/ main_set_heater
    \/ main_hold
    \/ main_delay

SpecGuest == InitGuest /\ [][NextGuest]_vars

\* the calls of a pass that are host_get_temperature, host_set_heater or host_delay
CountedCalls(calls) == SelectSeq(calls, LAMBDA c : c \in LoopCalls)

\* C31: main never returns and is always at or between host calls; a finished
\* pass of its loop has called host_get_temperature once, then host_set_heater
\* at most once, then host_delay once, and an unfinished pass a prefix of
\* that; the arguments of the host_set_heater calls are 1, 0, 1, 0, ... and
\* the last of them (0 before the first) is heater_state.
C31_GuestLoopShape ==
    /\ guest_pc \in {"start", "get_temperature", "control", "delay"}
    /\ (guest_pc = "get_temperature" /\ guest_calls # <<"host_log", "host_log">>) =>
           CountedCalls(guest_calls) \in
               {<<"host_get_temperature", "host_delay">>,
                <<"host_get_temperature", "host_set_heater", "host_delay">>}
    /\ (guest_pc = "control") =>
           CountedCalls(guest_calls) = <<"host_get_temperature">>
    /\ (guest_pc = "delay") =>
           CountedCalls(guest_calls) \in
               {<<"host_get_temperature">>,
                <<"host_get_temperature", "host_set_heater">>}
    /\ \A k \in 1..Len(set_heater_args) :
           set_heater_args[k] = (IF k % 2 = 1 THEN 1 ELSE 0)
    /\ g_heater_state = LastOr(set_heater_args, 0)

\* C31 witness: four passes in which the heater was switched on, off, on and
\* off, the last pass finished with its host_delay
C31_Witness ==
    /\ set_heater_args = <<1, 0, 1, 0>>
    /\ guest_pc = "get_temperature"
    /\ guest_calls = <<"host_get_temperature", "host_set_heater", "host_log",
                       "host_delay">>

----------------------------------------------------------------------------
(* Controller and plant together: controller1.c commands, bridge1.c stores *)

\* what bridge1.c's onReceiveData reads of a full-length packet: the counter
\* is never read there
Frame(p) == [device_id |-> p.device_id, id |-> p.id, value |-> p.value]

\* controller1.c host_set_heater, the whole call: clamp, then the store when
\* the mutex is taken within 10 ms
link_set_heater ==
    /\ \E value \in CmdInputs, taken \in BOOLEAN :
         /\ c_heater_cmd' = IF taken THEN host_clamp(value) ELSE c_heater_cmd
         /\ c_held' = c_held \cup {c_heater_cmd'}
    /\ UNCHANGED <<c_cmd_to_send, c_pc, air, b_heater_cmd>>
    /\ UNCHANGED <<node, shared, task_vars, recv_vars, wasm_vars, ghost_vars,
                   wire_vars, law_vars, plant_vars, guest_vars>>

\* the same read with 1.0f as the value used after a failed take
link_sender_read_default_on ==
    /\ c_pc = "take"
    /\ \E taken \in BOOLEAN :
         c_cmd_to_send' = IF taken THEN c_heater_cmd ELSE ONE
    /\ c_pc' = "send"
    /\ UNCHANGED <<c_heater_cmd, c_held, air, b_heater_cmd>>
    /\ UNCHANGED <<node, shared, task_vars, recv_vars, wasm_vars, ghost_vars,
                   wire_vars, law_vars, plant_vars, guest_vars>>

\* controller1.c sender_task: cmd_to_send = heater_cmd under the mutex, or
\* 0.0f when the take fails
link_sender_read ==
    /\ c_pc = "take"
    /\ \E taken \in BOOLEAN :
         c_cmd_to_send' = IF taken THEN c_heater_cmd ELSE TimeoutCmd(c_heater_cmd)
    /\ c_pc' = "send"
    /\ UNCHANGED <<c_heater_cmd, c_held, air, b_heater_cmd>>
    /\ UNCHANGED <<node, shared, task_vars, recv_vars, wasm_vars, ghost_vars,
                   wire_vars, law_vars, plant_vars, guest_vars>>

\* controller1.c sender_task: the packet, esp_now_send and the delay; a packet
\* esp_now_send accepted is on the link from then on
link_sender_send ==
    /\ c_pc = "send"
    /\ \E r \in SendResults :
         air' = IF r = ESP_OK
                THEN air \cup {Frame(command_packet(c_cmd_to_send, 0))}
                ELSE air
    /\ c_pc' = "take"
    /\ UNCHANGED <<c_heater_cmd, c_held, c_cmd_to_send, b_heater_cmd>>
    /\ UNCHANGED <<node, shared, task_vars, recv_vars, wasm_vars, ghost_vars,
                   wire_vars, law_vars, plant_vars, guest_vars>>

\* bridge1.c onReceiveData, the whole call, for a packet the link delivers:
\* any packet sent so far, any number of times, in any order, or never
link_deliver ==
    /\ \E p \in air, taken \in BOOLEAN :
         /\ bridge_accepts(p)
         /\ b_heater_cmd' = IF taken THEN bridge_clamp(p.value) ELSE b_heater_cmd
    /\ UNCHANGED <<c_heater_cmd, c_held, c_cmd_to_send, c_pc, air>>
    /\ UNCHANGED <<node, shared, task_vars, recv_vars, wasm_vars, ghost_vars,
                   wire_vars, law_vars, plant_vars, guest_vars>>

InitLink == Init /\ node = "controller1"

NextLink ==
    \/ link_set_heater
    \/ link_sender_read
    \/ link_sender_send
    \/ link_deliver

SpecLink == InitLink /\ [][NextLink]_vars

\* C32: the plant's heater_cmd is its initial 0.0 or the clamp of the value
\* of a command packet the controller sent, and the value of every command
\* packet sent is a value the controller's heater_cmd has held or 0.0.
C32_PlantCommandHasOrigin ==
    /\ \/ b_heater_cmd = 0
       \/ \E p \in air : b_heater_cmd = bridge_clamp(p.value)
    /\ \A p \in air : p.value \in c_held \cup {0}

\* C32 witness: the controller's command has been 0.5 and is now 1.0; the
\* plant still holds the 0.5 of an earlier packet
C32_Witness ==
    /\ b_heater_cmd = F_0_5
    /\ c_heater_cmd = ONE
    /\ \E p \in air : p.value = F_0_5
    /\ \E p \in air : p.value = ONE

====
